---------------------------- MODULE Spec2Model ----------------------------
(***************************************************************************)
(* A model of the client-side interop layer of the Council web app:        *)
(*   - the service worker (src/service-worker.js): strategy selector,      *)
(*     cache-first / network-first executors, install / activate /         *)
(*     message handlers over Cache Storage;                                *)
(*   - the Leaflet map wrappers (src/unnamed/part_000,                     *)
(*     src/js/leafletWrapper.js, src/_content/.../leafletMap.js,           *)
(*     src/unnamed/part_001).                                              *)
(* Asynchronous functions are split at their await points: one action per  *)
(* segment between two awaits.  Platform and library calls (Cache Storage, *)
(* fetch, Leaflet) are modelled by their documented behaviour.             *)
(***************************************************************************)
EXTENDS Integers, Sequences, FiniteSets, TLC

VARIABLES
    pathname,      \* selector harness: the pathname handed to getCachingStrategy
    strategy,      \* selector harness: what getCachingStrategy returned for it
    swState,       \* ServiceWorker.state of this worker generation
    installPc,     \* position of the install handler's promise chain
    activatePc,    \* position of the activate handler's promise chain
    activateKeys,  \* the cacheNames the activate handler got from caches.keys()
    activateLeft,  \* the caches.delete calls of the activate handler still pending
    cacheNames,    \* Cache Storage: the existing namespaces, in creation order
    cacheEntries,  \* Cache Storage: name -> (url -> response) of existing namespaces
    installEpoch,  \* cacheEpoch[CACHE_NAME] when the install handler opened the precache
    cacheEpoch,    \* how often each namespace has been deleted (tells Cache objects apart)
    handlers,      \* the fetch-event handler invocations
    skipWaitingFlag, \* the worker's skip-waiting flag, set by self.skipWaiting()
    msg,           \* the message handler invocation in progress
    msgCount,      \* messages received so far
    sync,          \* the sync handler invocation in progress or last finished
    pushCount,     \* push events received so far
    lastPush,      \* the last push event and the showNotification call it made
    notifications, \* the notifications shown so far (index = notification)
    clients,       \* browser: the URLs of the origin's open windows
    click,         \* the notificationclick handler invocation in progress or last finished
    wrapper,       \* the map wrapper module the page has loaded
    maps,          \* Leaflet: the map instances created so far (index = instance)
    overlays,      \* Leaflet: the layer objects created so far (index = object)
    now,           \* Date.now()
    map,           \* the wrapper's module-level map handle (0 = null)
    layers,        \* GIS wrapper: layers = {}
    markers,       \* GIS wrapper: markers = {}; land / dashboard wrappers: markers = []
    polygons,      \* dashboard wrapper: polygons = []
    parcels,       \* land wrapper: parcels = []
    chiefdomBoundaries, \* land wrapper: chiefdomBoundaries = []
    layerGroup,    \* leafletWrapper: layerGroup (0 = null)
    drawnItems,    \* leafletWrapper: drawnItems (0 = null)
    drawControl,   \* leafletWrapper: drawControl (0 = null)
    lastCall,      \* the last call into the wrapper and what the caller observed
    exported,      \* what the last export call returned
    roundTrip,     \* observer: progress of an export / clear / re-import sequence
    clickHandlers, \* Leaflet: the 'click' listeners attached to maps, in the order attached
    currentDrawingMode, \* GIS wrapper: let currentDrawingMode ("null" = null)
    drawingLayer,  \* GIS wrapper: let drawingLayer and the shapes in the group
    measurementLayer, \* GIS wrapper: let measurementLayer and the layers in the group
    tileLayers,    \* Leaflet: the tile layers created so far (index = object)
    currentBaseLayer, \* GIS wrapper: let currentBaseLayer (0 = null)
    session,       \* observer: the clicks and shapes since the last enableDrawingMode call
    clicks,        \* clicks of the user on the map so far
    issued,        \* observer: the identifiers the add calls have returned, with the tick
    page,          \* pwa-helper: how far the page has come with the helper script
    listeners,     \* pwa-helper: the window events the helper listens to
    registration,  \* pwa-helper: let registration (NoRegistration = null)
    registerPc,    \* pwa-helper: position of the async registerServiceWorker()
    apiExposed,    \* pwa-helper: window.PWA has been assigned
    promptEvents,  \* browser: the beforeinstallprompt events dispatched so far
    deferredInstallPrompt, \* pwa-helper: let deferredInstallPrompt (0 = null)
    isInstalled,   \* pwa-helper: let isInstalled
    installCall,   \* host: the PWA.install() call in progress or last finished
    permission,    \* browser: Notification.permission
    pushCall,      \* host: the PWA.subscribeToPush() call in progress or last finished
    subscription,  \* browser: pushManager holds a push subscription
    banner,        \* pwa-helper: the install banner is in the document
    bannerClick,   \* pwa-helper: the banner's install handler awaits this event (0 = none)
    clearCall      \* host: the PWA.clearCache() call in progress or last finished

notifyVars == <<pushCount, lastPush, notifications, clients, click>>
swVars  == <<swState, installPc, installEpoch, activatePc, activateKeys, activateLeft,
             cacheNames, cacheEntries, cacheEpoch, handlers, skipWaitingFlag,
             msg, msgCount, sync, notifyVars>>
selVars == <<pathname, strategy>>
leafletVars  == <<maps, overlays, now>>
registryVars == <<layers, markers, polygons, parcels, chiefdomBoundaries,
                  layerGroup, drawnItems, drawControl>>
toolVars == <<clickHandlers, currentDrawingMode, drawingLayer, measurementLayer, session,
              clicks>>
baseVars == <<tileLayers, currentBaseLayer>>
drawingVars == <<toolVars, baseVars>>
drawVars == <<drawingVars, issued>>
mapVars == <<wrapper, leafletVars, map, registryVars, lastCall, exported, roundTrip,
             drawVars>>
hostVars == <<clearCall>>
pwaVars == <<page, listeners, registration, registerPc, apiExposed, promptEvents,
             deferredInstallPrompt, isInstalled, installCall, permission, pushCall,
             subscription, banner, bannerClick, hostVars>>
vars    == <<selVars, swVars, mapVars, pwaVars>>

-----------------------------------------------------------------------------
(* Bounds of the model *)

\* fragments concatenated into a pathname of the selector harness
MaxFrags == 3
\* fetch events handled in one behaviour
MaxHandlers == 1
\* messages posted to the worker in one behaviour
MaxMessages == 1
\* fetch handlers of one URL that run at the same time
MaxOverlap == 2

-----------------------------------------------------------------------------
(* Character strings.  A pathname is a sequence of one-character strings,  *)
(* so that startsWith / endsWith / the extension regex are computed.       *)

StartsWith(s, p) == Len(s) >= Len(p) /\ SubSeq(s, 1, Len(p)) = p
EndsWith(s, p)   == Len(s) >= Len(p) /\ SubSeq(s, Len(s) - Len(p) + 1, Len(s)) = p

Slash        == <<"/">>
ApiPrefix    == <<"/", "a", "p", "i", "/">>
FrameworkPrefix == <<"/", "_", "f", "r", "a", "m", "e", "w", "o", "r", "k", "/">>
ContentPrefix   == <<"/", "_", "c", "o", "n", "t", "e", "n", "t", "/">>
HtmlSuffix   == <<".", "h", "t", "m", "l">>

\* the alternatives of /\.(css|js|png|jpg|jpeg|gif|svg|woff|woff2|ttf|eot)$/
StaticExtensions ==
    { <<"c", "s", "s">>, <<"j", "s">>, <<"p", "n", "g">>, <<"j", "p", "g">>,
      <<"j", "p", "e", "g">>, <<"g", "i", "f">>, <<"s", "v", "g">>,
      <<"w", "o", "f", "f">>, <<"w", "o", "f", "f", "2">>, <<"t", "t", "f">>,
      <<"e", "o", "t">> }

MatchesStaticExtension(p) == \E e \in StaticExtensions : EndsWith(p, <<".">> \o e)

CACHE_FIRST   == "cache-first"
NETWORK_FIRST == "network-first"
STALE_WHILE_REVALIDATE == "stale-while-revalidate"
NETWORK_ONLY  == "network-only"
CACHE_ONLY    == "cache-only"
CACHE_STRATEGIES ==
    {CACHE_FIRST, NETWORK_FIRST, STALE_WHILE_REVALIDATE, NETWORK_ONLY, CACHE_ONLY}

\* a selector that tests the API prefix before the static-asset rules
getCachingStrategy_ApiFirst(p) ==
    IF StartsWith(p, ApiPrefix) THEN NETWORK_FIRST
    ELSE IF MatchesStaticExtension(p) THEN CACHE_FIRST
    ELSE IF StartsWith(p, FrameworkPrefix) THEN CACHE_FIRST
    ELSE IF StartsWith(p, ContentPrefix) THEN CACHE_FIRST
    ELSE NETWORK_FIRST

\* a selector whose HTML rule answers cache-first
getCachingStrategy_HtmlCached(p) ==
    IF MatchesStaticExtension(p) THEN CACHE_FIRST
    ELSE IF StartsWith(p, FrameworkPrefix) THEN CACHE_FIRST
    ELSE IF StartsWith(p, ContentPrefix) THEN CACHE_FIRST
    ELSE IF StartsWith(p, ApiPrefix) THEN NETWORK_FIRST
    ELSE IF EndsWith(p, Slash) \/ EndsWith(p, HtmlSuffix) THEN CACHE_FIRST
    ELSE NETWORK_FIRST

\* a selector whose HTML rule answers stale-while-revalidate
getCachingStrategy_HtmlRevalidated(p) ==
    IF MatchesStaticExtension(p) THEN CACHE_FIRST
    ELSE IF StartsWith(p, FrameworkPrefix) THEN CACHE_FIRST
    ELSE IF StartsWith(p, ContentPrefix) THEN CACHE_FIRST
    ELSE IF StartsWith(p, ApiPrefix) THEN NETWORK_FIRST
    ELSE IF EndsWith(p, Slash) \/ EndsWith(p, HtmlSuffix) THEN STALE_WHILE_REVALIDATE
    ELSE NETWORK_FIRST

\* getCachingStrategy(request), on the request URL's pathname: first match wins
getCachingStrategy(p) ==
    IF MatchesStaticExtension(p) THEN CACHE_FIRST
    ELSE IF StartsWith(p, FrameworkPrefix) THEN CACHE_FIRST
    ELSE IF StartsWith(p, ContentPrefix) THEN CACHE_FIRST
    ELSE IF StartsWith(p, ApiPrefix) THEN NETWORK_FIRST
    ELSE IF EndsWith(p, Slash) \/ EndsWith(p, HtmlSuffix) THEN NETWORK_FIRST
    ELSE NETWORK_FIRST

\* Pathnames of the selector harness: a fragment that starts with "/",
\* followed by up to MaxFrags - 1 further fragments.
LeadFragments == {Slash, ApiPrefix, FrameworkPrefix, ContentPrefix}
Fragments ==
    LeadFragments
    \cup { <<".">> \o e : e \in StaticExtensions }
    \cup { HtmlSuffix, <<".", "j", "s", "o", "n">>, <<"x">>, <<"2">>,
           <<"a", "p", "i">>, <<"j", "s">> }

RECURSIVE Extend(_, _)
Extend(S, n) ==
    IF n = 0 THEN S
    ELSE S \cup Extend({ s \o f : s \in S, f \in Fragments }, n - 1)

Pathnames == Extend(LeadFragments, MaxFrags - 1)

NotSelected == "not-selected"

InitSelector == pathname \in Pathnames /\ strategy = NotSelected
IdleSelector == pathname = Slash /\ strategy = NotSelected

\* the fetch handler's call  let strategy = getCachingStrategy(request)
SelectStrategy ==
    /\ strategy = NotSelected
    /\ strategy' = getCachingStrategy(pathname)
    /\ UNCHANGED <<pathname, swVars, mapVars, pwaVars>>

NextSelector == SelectStrategy


-----------------------------------------------------------------------------
(* Service worker: constants of src/service-worker.js *)

CACHE_NAME    == "council-app-v1.0.0"
\* a worker that keeps its runtime responses in the precache
RUNTIME_CACHE_InPrecache == CACHE_NAME
RUNTIME_CACHE == "council-app-runtime"
OFFLINE_URL   == "/offline.html"

PRECACHE_ASSETS ==
    { "/", "/index.html", "/css/app.css",
      "/lib/bootstrap/dist/css/bootstrap.min.css", "/favicon.png",
      "/icon-192.png", "/manifest.json", "/offline.html",
      "/_framework/blazor.webassembly.js" }

\* namespaces left in Cache Storage by earlier generations or other scripts
StaleCacheNames == {"council-app-v0.9.0", "council-app-tiles"}
AllCacheNames   == {CACHE_NAME, RUNTIME_CACHE} \cup StaleCacheNames

(* Requests the browser dispatches as fetch events *)
CssRequest    == [url |-> "/css/app.css", method |-> "GET", mode |-> "no-cors", sameOrigin |-> TRUE]
ScriptRequest == [url |-> "/js/site.js", method |-> "GET", mode |-> "no-cors", sameOrigin |-> TRUE]
ApiGetRequest == [url |-> "/api/data", method |-> "GET", mode |-> "cors", sameOrigin |-> TRUE]
ApiPostRequest == [url |-> "/api/data", method |-> "POST", mode |-> "cors", sameOrigin |-> TRUE]
PageRequest   == [url |-> "/reports/", method |-> "GET", mode |-> "navigate", sameOrigin |-> TRUE]
CdnRequest    == [url |-> "/cdn/leaflet.js", method |-> "GET", mode |-> "no-cors", sameOrigin |-> FALSE]
NoRequest     == [url |-> "", method |-> "", mode |-> "", sameOrigin |-> FALSE]
Requests ==
    {CssRequest, ScriptRequest, ApiGetRequest, ApiPostRequest, PageRequest, CdnRequest}
\* requests dispatched while caches are being cleared
RacingRequests == {ScriptRequest, ApiGetRequest}

\* new URL(request.url).pathname of the requests above
PathOf(url) ==
    CASE url = "/css/app.css" -> <<"/", "c", "s", "s", "/", "a", "p", "p", ".", "c", "s", "s">>
      [] url = "/js/site.js"  -> <<"/", "j", "s", "/", "s", "i", "t", "e", ".", "j", "s">>
      [] url = "/api/data"    -> <<"/", "a", "p", "i", "/", "d", "a", "t", "a">>
      [] url = "/reports/"    -> <<"/", "r", "e", "p", "o", "r", "t", "s", "/">>
      [] url = "/cdn/leaflet.js" ->
            <<"/", "c", "d", "n", "/", "l", "e", "a", "f", "l", "e", "t", ".", "j", "s">>
      [] OTHER -> Slash

(* Responses.  "from" tells the copies of one URL apart. *)
NoResponse   == [url |-> "", status |-> 0, from |-> "undefined"]
NetworkError == [url |-> "", status |-> 0, from |-> "rejected"]
\* new Response('Offline', { status: 503, statusText: 'Service Unavailable' })
Synthetic503 == [url |-> "", status |-> 503, from |-> "synthetic"]
Fetched(u, s, who) == [url |-> u, status |-> s, from |-> who]

Handlers == 1 .. MaxHandlers
Overlapping == 1 .. MaxOverlap
\* a worker that answers overlapping requests from one shared fetch
FromHandler_Shared(h) == "fetch-1"

\* the Response object the fetch(request) call of handler h resolves with
FromHandler(h) == "fetch-" \o ToString(h)

NoEntries == [u \in {} |-> NoResponse]

-----------------------------------------------------------------------------
(* Cache Storage (platform) *)

CacheExists(names, n) == \E i \in 1 .. Len(names) : names[i] = n
NameSet(names) == { names[i] : i \in 1 .. Len(names) }

Min(S) == CHOOSE x \in S : \A y \in S : x <= y

\* caches.match looking in the runtime cache only
CachesMatch_RuntimeOnly(names, entries, req) ==
    IF req.method = "GET" /\ CacheExists(names, RUNTIME_CACHE)
       /\ req.url \in DOMAIN entries[RUNTIME_CACHE]
    THEN entries[RUNTIME_CACHE][req.url]
    ELSE NoResponse

\* caches.match(request): the first namespace, in creation order, that holds
\* an entry for the URL; only GET requests match (ignoreMethod is not set)
CachesMatch(names, entries, req) ==
    LET hits == { i \in 1 .. Len(names) : req.url \in DOMAIN entries[names[i]] }
    IN  IF req.method = "GET" /\ hits # {}
        THEN entries[names[Min(hits)]][req.url]
        ELSE NoResponse

\* caches.open(name): creates the namespace when it does not exist
OpenedNames(names, n) == IF CacheExists(names, n) THEN names ELSE Append(names, n)

\* caches.delete(name)
DeletedNames(names, n) == SelectSeq(names, LAMBDA x : x # n)

\* cache.put / cache.addAll through a Cache object obtained when the
\* namespace had been deleted `epoch` times: a Cache object whose namespace
\* was deleted since is detached from Cache Storage, the write is not visible
PutEntries(names, entries, epochs, n, epoch, new) ==
    IF CacheExists(names, n) /\ epochs[n] = epoch
    THEN [entries EXCEPT ![n] = new @@ @]
    ELSE entries

OfflineRequest == [url |-> OFFLINE_URL, method |-> "GET", mode |-> "", sameOrigin |-> TRUE]


-----------------------------------------------------------------------------
(* Lifecycle handlers *)

cacheVars == <<cacheNames, cacheEntries, cacheEpoch>>
activateVars == <<activatePc, activateKeys, activateLeft>>

\* the browser evaluates the script and dispatches 'install'
InstallEvent ==
    /\ swState = "parsed"
    /\ swState' = "installing"
    /\ installPc' = "open"
    /\ UNCHANGED <<installEpoch, activateVars, cacheVars, handlers, skipWaitingFlag,
                   msg, msgCount>>
    /\ UNCHANGED <<selVars, mapVars, pwaVars, sync, notifyVars>>

\* caches.open(CACHE_NAME)
InstallOpen ==
    /\ installPc = "open"
    /\ cacheNames' = OpenedNames(cacheNames, CACHE_NAME)
    /\ installPc' = "addAll"
    /\ installEpoch' = cacheEpoch[CACHE_NAME]
    /\ UNCHANGED <<swState, activateVars, cacheEntries, cacheEpoch, handlers,
                   skipWaitingFlag, msg, msgCount>>
    /\ UNCHANGED <<selVars, mapVars, pwaVars, sync, notifyVars>>

PrecacheResponses == [u \in PRECACHE_ASSETS |-> Fetched(u, 200, "install")]

\* cache.addAll(PRECACHE_ASSETS): stores every asset, or rejects and stores
\* nothing when one of them cannot be fetched; a rejection fails the install
InstallAddAll(ok) ==
    /\ installPc = "addAll"
    /\ IF ok
       THEN /\ cacheEntries' = PutEntries(cacheNames, cacheEntries, cacheEpoch, CACHE_NAME,
                                          installEpoch, PrecacheResponses)
            /\ installPc' = "skipWaiting"
            /\ swState' = swState
       ELSE /\ installPc' = "failed"
            /\ swState' = "redundant"
            /\ cacheEntries' = cacheEntries
    /\ UNCHANGED <<activateVars, cacheNames, cacheEpoch, handlers, skipWaitingFlag,
                   msg, msgCount, installEpoch>>
    /\ UNCHANGED <<selVars, mapVars, pwaVars, sync, notifyVars>>

\* an install handler that does not call skipWaiting
InstallSkipWaiting_Waits ==
    /\ installPc = "skipWaiting"
    /\ skipWaitingFlag' = skipWaitingFlag
    /\ installPc' = "done"
    /\ swState' = "installed"
    /\ UNCHANGED <<activateVars, cacheVars, handlers, msg, msgCount, installEpoch>>
    /\ UNCHANGED <<selVars, mapVars, pwaVars, sync, notifyVars>>

\* .then(() => self.skipWaiting()); the waitUntil promise settles: installed
InstallSkipWaiting ==
    /\ installPc = "skipWaiting"
    /\ skipWaitingFlag' = TRUE
    /\ installPc' = "done"
    /\ swState' = "installed"
    /\ UNCHANGED <<activateVars, cacheVars, handlers, msg, msgCount, installEpoch>>
    /\ UNCHANGED <<selVars, mapVars, pwaVars, sync, notifyVars>>

\* the browser activates a waiting worker whose skip-waiting flag is set
ActivateEvent ==
    /\ swState = "installed"
    /\ skipWaitingFlag
    /\ swState' = "activating"
    /\ activatePc' = "keys"
    /\ UNCHANGED <<installPc, installEpoch, activateKeys, activateLeft, cacheVars,
                   handlers, skipWaitingFlag, msg, msgCount>>
    /\ UNCHANGED <<selVars, mapVars, pwaVars, sync, notifyVars>>

\* an activate handler that deletes only the earlier generations of the precache
StaleNames_EarlierGenerations(names) == names \cap {"council-app-v0.9.0"}

\* an activate handler that keeps only the precache
StaleNames_KeepPrecacheOnly(names) == { n \in names : n # CACHE_NAME }

\* cacheNames.filter(cacheName => cacheName !== CACHE_NAME && cacheName !== RUNTIME_CACHE)
StaleNames(names) == { n \in names : n # CACHE_NAME /\ n # RUNTIME_CACHE }

\* caches.keys().then(cacheNames => Promise.all(filter.map(caches.delete)))
ActivateKeys ==
    /\ activatePc = "keys"
    /\ activateKeys' = NameSet(cacheNames)
    /\ activateLeft' = StaleNames(NameSet(cacheNames))
    /\ activatePc' = "delete"
    /\ UNCHANGED <<swState, installPc, installEpoch, cacheVars, handlers,
                   skipWaitingFlag, msg, msgCount>>
    /\ UNCHANGED <<selVars, mapVars, pwaVars, sync, notifyVars>>

DeleteCache(n) ==
    /\ cacheNames' = DeletedNames(cacheNames, n)
    /\ cacheEntries' = [cacheEntries EXCEPT ![n] = NoEntries]
    /\ cacheEpoch' = [cacheEpoch EXCEPT ![n] = IF CacheExists(cacheNames, n) THEN @ + 1 ELSE @]

\* one caches.delete(cacheName) of the Promise.all completes
ActivateDelete(n) ==
    /\ activatePc = "delete"
    /\ n \in activateLeft
    /\ DeleteCache(n)
    /\ activateLeft' = activateLeft \ {n}
    /\ UNCHANGED <<swState, installPc, installEpoch, activatePc, activateKeys, handlers,
                   skipWaitingFlag, msg, msgCount>>
    /\ UNCHANGED <<selVars, mapVars, pwaVars, sync, notifyVars>>

\* .then(() => self.clients.claim()); the waitUntil promise settles: activated
ActivateClaim ==
    /\ activatePc = "delete"
    /\ activateLeft = {}
    /\ activatePc' = "claimed"
    /\ swState' = "activated"
    /\ UNCHANGED <<installPc, installEpoch, activateKeys, activateLeft, cacheVars,
                   handlers, skipWaitingFlag, msg, msgCount>>
    /\ UNCHANGED <<selVars, mapVars, pwaVars, sync, notifyVars>>


-----------------------------------------------------------------------------
(* Message handler *)

lifecycleVars == <<swState, installPc, installEpoch, activateVars>>

NoMessage == [type |-> "none", pc |-> "idle", urls |-> {}, left |-> {}, epoch |-> 0]

\* url lists a page posts with CACHE_URLS
UrlLists == { {"/reports/"}, {"/js/site.js", "/api/data"} }

MessageTypes == {"SKIP_WAITING", "CACHE_URLS", "CLEAR_CACHE"}

\* The pages post SKIP_WAITING to registration.waiting and the cache
\* commands to registration.active (src/js/pwa-helper.js:437, 466).
Addressed(type) ==
    IF type = "SKIP_WAITING" THEN swState = "installed"
    ELSE swState \in {"activating", "activated"}

\* handler h has called fetch(request)
FetchStarted(h) == handlers[h].pc \in {"cf_fetch", "nf_fetch"} \/ handlers[h].fetches > 0

\* 'message' is dispatched; SKIP_WAITING is handled synchronously
MessageEvent(type, urls) ==
    /\ Addressed(type)
    /\ msg = NoMessage
    /\ msgCount < MaxMessages
    /\ msgCount' = msgCount + 1
    /\ CASE type = "SKIP_WAITING" ->
              /\ skipWaitingFlag' = TRUE
              /\ msg' = msg
         [] type = "CACHE_URLS" ->
              /\ msg' = [NoMessage EXCEPT !.type = type, !.pc = "open", !.urls = urls]
              /\ UNCHANGED skipWaitingFlag
         [] type = "CLEAR_CACHE" ->
              /\ msg' = [NoMessage EXCEPT !.type = type, !.pc = "keys"]
              /\ UNCHANGED skipWaitingFlag
    /\ UNCHANGED <<lifecycleVars, cacheVars, handlers>>
    /\ UNCHANGED <<selVars, mapVars, pwaVars, sync, notifyVars>>

\* CACHE_URLS: caches.open(RUNTIME_CACHE)
CacheUrlsOpen ==
    /\ msg.type = "CACHE_URLS" /\ msg.pc = "open"
    /\ cacheNames' = OpenedNames(cacheNames, RUNTIME_CACHE)
    /\ msg' = [msg EXCEPT !.pc = "addAll", !.epoch = cacheEpoch[RUNTIME_CACHE]]
    /\ UNCHANGED <<lifecycleVars, cacheEntries, cacheEpoch, handlers, skipWaitingFlag,
                   msgCount>>
    /\ UNCHANGED <<selVars, mapVars, pwaVars, sync, notifyVars>>

\* CACHE_URLS: cache.addAll(event.data.urls) stores all of them or none
CacheUrlsAddAll(ok) ==
    /\ msg.type = "CACHE_URLS" /\ msg.pc = "addAll"
    /\ cacheEntries' =
          IF ok
          THEN PutEntries(cacheNames, cacheEntries, cacheEpoch, RUNTIME_CACHE, msg.epoch,
                          [u \in msg.urls |-> Fetched(u, 200, "message")])
          ELSE cacheEntries
    /\ msg' = NoMessage
    /\ UNCHANGED <<lifecycleVars, cacheNames, cacheEpoch, handlers, skipWaitingFlag,
                   msgCount>>
    /\ UNCHANGED <<selVars, mapVars, pwaVars, sync, notifyVars>>

\* CLEAR_CACHE: caches.keys()
ClearCacheKeys ==
    /\ msg.type = "CLEAR_CACHE" /\ msg.pc = "keys"
    /\ msg' = IF cacheNames = <<>> THEN NoMessage
              ELSE [msg EXCEPT !.pc = "delete", !.left = NameSet(cacheNames)]
    /\ UNCHANGED <<lifecycleVars, cacheVars, handlers, skipWaitingFlag, msgCount>>
    /\ UNCHANGED <<selVars, mapVars, pwaVars, sync, notifyVars>>

\* CLEAR_CACHE: one caches.delete(cacheName) of the Promise.all completes
ClearCacheDelete(n) ==
    /\ msg.type = "CLEAR_CACHE" /\ msg.pc = "delete"
    /\ n \in msg.left
    /\ DeleteCache(n)
    /\ msg' = IF msg.left = {n} THEN NoMessage ELSE [msg EXCEPT !.left = @ \ {n}]
    /\ UNCHANGED <<lifecycleVars, handlers, skipWaitingFlag, msgCount>>
    /\ UNCHANGED <<selVars, mapVars, pwaVars, sync, notifyVars>>


-----------------------------------------------------------------------------
(* Fetch handler and strategy executors *)

otherSwVars == <<lifecycleVars, skipWaitingFlag, msg, msgCount>>

IdleHandler ==
    [pc |-> "idle", request |-> NoRequest, strategy |-> "", cached |-> NoResponse,
     net |-> NoResponse, result |-> NoResponse, fetches |-> 0, epoch |-> 0,
     put |-> "none"]

\* what fetch(request) can do: resolve with a status, or reject (0)
Rejected == 0
FetchOutcomes == {200, 404, Rejected}

\* an executor that caches every response the network returned
Cacheable_AnyStatus(status) == status # Rejected

\* if (networkResponse && networkResponse.status === 200)
Cacheable(status) == status = 200

\* the switch of the fetch handler: the executor the strategy selects
FirstStep(s) ==
    CASE s = CACHE_FIRST -> "cf_match"
      [] s = NETWORK_FIRST -> "nf_fetch"
      [] s = STALE_WHILE_REVALIDATE -> "swr_match"
      [] s = NETWORK_ONLY -> "network_only"
      [] s = CACHE_ONLY -> "cache_only"
      [] OTHER -> "nf_fetch"

\* self.addEventListener('fetch', ...).  A same-origin URL of a worker always
\* starts with 'http', so the second early return is never taken.
FetchEvent(h, req) ==
    /\ swState = "activated"
    /\ handlers[h].pc = "idle"
    /\ IF h = 1 THEN TRUE ELSE handlers[h - 1].pc # "idle"
    /\ handlers' =
         [handlers EXCEPT ![h] =
            IF ~req.sameOrigin
            THEN [@ EXCEPT !.pc = "ignored", !.request = req]
            ELSE [@ EXCEPT !.pc = FirstStep(getCachingStrategy(PathOf(req.url))),
                           !.request = req,
                           !.strategy = getCachingStrategy(PathOf(req.url))]]
    /\ UNCHANGED <<otherSwVars, cacheVars>>
    /\ UNCHANGED <<selVars, mapVars, pwaVars, sync, notifyVars>>

\* cacheFirst: const cachedResponse = await caches.match(request); if (cachedResponse) return
CfMatch(h) ==
    /\ handlers[h].pc = "cf_match"
    /\ LET r == CachesMatch(cacheNames, cacheEntries, handlers[h].request)
       IN  handlers' =
             [handlers EXCEPT ![h] =
                IF r # NoResponse
                THEN [@ EXCEPT !.pc = "done", !.cached = r, !.result = r]
                ELSE [@ EXCEPT !.pc = "cf_fetch"]]
    /\ UNCHANGED <<otherSwVars, cacheVars>>
    /\ UNCHANGED <<selVars, mapVars, pwaVars, sync, notifyVars>>

\* cacheFirst: const networkResponse = await fetch(request), and the catch block
CfFetch(h, status) ==
    /\ handlers[h].pc = "cf_fetch"
    /\ LET net == Fetched(handlers[h].request.url, status, FromHandler(h))
       IN  handlers' =
             [handlers EXCEPT ![h] =
                IF status = Rejected
                THEN [@ EXCEPT !.pc = "done", !.fetches = @ + 1, !.net = NetworkError,
                               !.result = Synthetic503]
                ELSE IF Cacheable(status)
                THEN [@ EXCEPT !.pc = "cf_open", !.fetches = @ + 1, !.net = net]
                ELSE [@ EXCEPT !.pc = "done", !.fetches = @ + 1, !.net = net,
                               !.result = net]]
    /\ UNCHANGED <<otherSwVars, cacheVars>>
    /\ UNCHANGED <<selVars, mapVars, pwaVars, sync, notifyVars>>

\* an executor that awaits its cache.put before it returns
OpenAndPut_Awaited(h) ==
    /\ cacheNames' = OpenedNames(cacheNames, RUNTIME_CACHE)
    /\ cacheEntries' =
          IF handlers[h].request.method = "GET"
          THEN PutEntries(OpenedNames(cacheNames, RUNTIME_CACHE), cacheEntries, cacheEpoch,
                          RUNTIME_CACHE, cacheEpoch[RUNTIME_CACHE],
                          [u \in {handlers[h].request.url} |-> handlers[h].net])
          ELSE cacheEntries
    /\ handlers' = [handlers EXCEPT ![h] =
                      [@ EXCEPT !.pc = "done", !.epoch = cacheEpoch[RUNTIME_CACHE],
                                !.put = IF handlers[h].request.method = "GET"
                                        THEN "settled" ELSE "rejected",
                                !.result = handlers[h].net]]
    /\ UNCHANGED <<otherSwVars, cacheEpoch>>
    /\ UNCHANGED <<selVars, mapVars, pwaVars, sync, notifyVars>>

\* const cache = await caches.open(RUNTIME_CACHE); cache.put(request, clone) is
\* started and not awaited; return networkResponse
OpenAndPut(h) ==
    /\ cacheNames' = OpenedNames(cacheNames, RUNTIME_CACHE)
    /\ handlers' = [handlers EXCEPT ![h] =
                      [@ EXCEPT !.pc = "done", !.epoch = cacheEpoch[RUNTIME_CACHE],
                                !.put = "pending", !.result = handlers[h].net]]
    /\ UNCHANGED <<otherSwVars, cacheEntries, cacheEpoch>>
    /\ UNCHANGED <<selVars, mapVars, pwaVars, sync, notifyVars>>

CfOpen(h) == handlers[h].pc = "cf_open" /\ OpenAndPut(h)

\* the cache.put started by an executor completes; put rejects a request
\* whose method is not GET
PutComplete(h) ==
    /\ handlers[h].pc = "done"
    /\ handlers[h].put = "pending"
    /\ IF handlers[h].request.method = "GET"
       THEN /\ cacheEntries' =
                 PutEntries(cacheNames, cacheEntries, cacheEpoch, RUNTIME_CACHE,
                            handlers[h].epoch,
                            [u \in {handlers[h].request.url} |-> handlers[h].net])
            /\ handlers' = [handlers EXCEPT ![h].put = "settled"]
       ELSE /\ cacheEntries' = cacheEntries
            /\ handlers' = [handlers EXCEPT ![h].put = "rejected"]
    /\ UNCHANGED <<otherSwVars, cacheNames, cacheEpoch>>
    /\ UNCHANGED <<selVars, mapVars, pwaVars, sync, notifyVars>>

\* networkFirst: const networkResponse = await fetch(request)
NfFetch(h, status) ==
    /\ handlers[h].pc = "nf_fetch"
    /\ LET net == Fetched(handlers[h].request.url, status, FromHandler(h))
       IN  handlers' =
             [handlers EXCEPT ![h] =
                IF status = Rejected
                THEN [@ EXCEPT !.pc = "nf_match", !.fetches = @ + 1, !.net = NetworkError]
                ELSE IF Cacheable(status)
                THEN [@ EXCEPT !.pc = "nf_open", !.fetches = @ + 1, !.net = net]
                ELSE [@ EXCEPT !.pc = "done", !.fetches = @ + 1, !.net = net,
                               !.result = net]]
    /\ UNCHANGED <<otherSwVars, cacheVars>>
    /\ UNCHANGED <<selVars, mapVars, pwaVars, sync, notifyVars>>

NfOpen(h) == handlers[h].pc = "nf_open" /\ OpenAndPut(h)

\* a catch block that serves the offline page to navigations before it
\* looks for the request in the caches
AfterNetworkFailure_OfflineFirst(req, cached) ==
    IF req.mode = "navigate" THEN "nf_offline"
    ELSE IF cached # NoResponse THEN "done" ELSE "synthetic"

\* networkFirst, catch block: what follows  await caches.match(request)
AfterNetworkFailure(req, cached) ==
    IF cached # NoResponse THEN "done"
    ELSE IF req.mode = "navigate" THEN "nf_offline"
    ELSE "synthetic"

\* networkFirst, catch block: const cachedResponse = await caches.match(request)
NfMatch(h) ==
    /\ handlers[h].pc = "nf_match"
    /\ LET r == CachesMatch(cacheNames, cacheEntries, handlers[h].request)
           next == AfterNetworkFailure(handlers[h].request, r)
       IN  handlers' =
             [handlers EXCEPT ![h] =
                CASE next = "done" -> [@ EXCEPT !.pc = "done", !.cached = r, !.result = r]
                  [] next = "nf_offline" -> [@ EXCEPT !.pc = "nf_offline", !.cached = r]
                  [] OTHER -> [@ EXCEPT !.pc = "done", !.cached = r,
                                        !.result = Synthetic503]]
    /\ UNCHANGED <<otherSwVars, cacheVars>>
    /\ UNCHANGED <<selVars, mapVars, pwaVars, sync, notifyVars>>

\* networkFirst, catch block: const offlineResponse = await caches.match(OFFLINE_URL)
NfOffline(h) ==
    /\ handlers[h].pc = "nf_offline"
    /\ LET o == CachesMatch(cacheNames, cacheEntries, OfflineRequest)
       IN  handlers' =
             [handlers EXCEPT ![h] =
                [@ EXCEPT !.pc = "done",
                          !.result = IF o # NoResponse THEN o ELSE Synthetic503]]
    /\ UNCHANGED <<otherSwVars, cacheVars>>
    /\ UNCHANGED <<selVars, mapVars, pwaVars, sync, notifyVars>>

\* staleWhileRevalidate: const cachedResponse = await caches.match(request);
\* fetch(request) is started and `return cachedResponse || fetchPromise`
\* settles the executor at once when there is a cached response
SwrMatch(h) ==
    /\ handlers[h].pc = "swr_match"
    /\ LET r == CachesMatch(cacheNames, cacheEntries, handlers[h].request)
       IN  handlers' = [handlers EXCEPT ![h] =
                          [@ EXCEPT !.pc = "swr_fetch", !.cached = r, !.result = r]]
    /\ UNCHANGED <<otherSwVars, cacheVars>>
    /\ UNCHANGED <<selVars, mapVars, pwaVars, sync, notifyVars>>

\* what fetchPromise settles with: the value of the then callback, or of
\* .catch(() => cachedResponse) when the fetch or the callback rejected
FetchPromise(cached, net, rejected) == IF rejected THEN cached ELSE net

\* cachedResponse || fetchPromise
CachedOr(cached, promised) == IF cached # NoResponse THEN cached ELSE promised

\* staleWhileRevalidate: fetch(request) settles
SwrFetch(h, status) ==
    /\ handlers[h].pc = "swr_fetch"
    /\ LET net == Fetched(handlers[h].request.url, status, FromHandler(h))
           c == handlers[h].cached
       IN  handlers' =
             [handlers EXCEPT ![h] =
                IF status = Rejected
                THEN [@ EXCEPT !.pc = "done", !.fetches = @ + 1, !.net = NetworkError,
                               !.result = CachedOr(c, FetchPromise(c, NetworkError, TRUE))]
                ELSE IF Cacheable(status)
                THEN [@ EXCEPT !.pc = "swr_open", !.fetches = @ + 1, !.net = net]
                ELSE [@ EXCEPT !.pc = "done", !.fetches = @ + 1, !.net = net,
                               !.result = CachedOr(c, FetchPromise(c, net, FALSE))]]
    /\ UNCHANGED <<otherSwVars, cacheVars>>
    /\ UNCHANGED <<selVars, mapVars, pwaVars, sync, notifyVars>>

\* staleWhileRevalidate: const cache = await caches.open(RUNTIME_CACHE)
SwrOpen(h) ==
    /\ handlers[h].pc = "swr_open"
    /\ cacheNames' = OpenedNames(cacheNames, RUNTIME_CACHE)
    /\ handlers' = [handlers EXCEPT ![h] =
                      [@ EXCEPT !.pc = "swr_put", !.epoch = cacheEpoch[RUNTIME_CACHE],
                                !.put = "pending"]]
    /\ UNCHANGED <<otherSwVars, cacheEntries, cacheEpoch>>
    /\ UNCHANGED <<selVars, mapVars, pwaVars, sync, notifyVars>>

\* staleWhileRevalidate: await cache.put(request, networkResponse.clone());
\* return networkResponse.  put rejects a request whose method is not GET.
SwrPut(h) ==
    /\ handlers[h].pc = "swr_put"
    /\ LET ok == handlers[h].request.method = "GET"
           c == handlers[h].cached
       IN  /\ cacheEntries' =
                 IF ok
                 THEN PutEntries(cacheNames, cacheEntries, cacheEpoch, RUNTIME_CACHE,
                                 handlers[h].epoch,
                                 [u \in {handlers[h].request.url} |-> handlers[h].net])
                 ELSE cacheEntries
           /\ handlers' =
                 [handlers EXCEPT ![h] =
                    [@ EXCEPT !.pc = "done",
                              !.put = IF ok THEN "settled" ELSE "rejected",
                              !.result = CachedOr(c, FetchPromise(c, handlers[h].net, ~ok))]]
    /\ UNCHANGED <<otherSwVars, cacheNames, cacheEpoch>>
    /\ UNCHANGED <<selVars, mapVars, pwaVars, sync, notifyVars>>

\* the three strategy executor functions
Executors == {CACHE_FIRST, NETWORK_FIRST, STALE_WHILE_REVALIDATE}

\* an executor function applied to a same-origin request
ExecutorCall(h, req, s) ==
    /\ swState = "activated"
    /\ req.sameOrigin
    /\ handlers[h].pc = "idle"
    /\ IF h = 1 THEN TRUE ELSE handlers[h - 1].pc # "idle"
    /\ handlers' = [handlers EXCEPT ![h] =
                      [@ EXCEPT !.pc = FirstStep(s), !.request = req, !.strategy = s]]
    /\ UNCHANGED <<otherSwVars, cacheVars>>
    /\ UNCHANGED <<selVars, mapVars, pwaVars, sync, notifyVars>>

-----------------------------------------------------------------------------
(* Background sync *)

MaxSyncs == 2   \* sync events the browser dispatches

NoSync ==
    [pc |-> "idle", tag |-> "", count |-> 0, epoch |-> 0, keys |-> {}, left |-> {},
     current |-> NoRequest, replayed |-> {}, failed |-> {}, deleted |-> {}]

SyncTags == {"sync-data", "sync-forms"}

\* s.includes(t)
Includes(s, t) == \E i \in 1 .. Len(s) - Len(t) + 1 : SubSeq(s, i, i + Len(t) - 1) = t

\* cache.keys(): the requests of the entries; put and addAll store nothing
\* but GET requests
KeysOf(entries) ==
    { [url |-> u, method |-> "GET", mode |-> "", sameOrigin |-> TRUE] : u \in DOMAIN entries }

\* a replay filter that looks at the URL only
Replayable_AnyMethod(req) == Includes(PathOf(req.url), ApiPrefix)

\* request.url.includes('/api/') && request.method !== 'GET'
Replayable(req) == Includes(PathOf(req.url), ApiPrefix) /\ req.method # "GET"

\* cache.delete(request): matches like cache.match, so only a GET request
\* finds its entry
DeletedEntry(entries, req) ==
    IF req.method = "GET"
    THEN [u \in DOMAIN entries \ {req.url} |-> entries[u]]
    ELSE entries

\* self.addEventListener('sync', ...): any tag but 'sync-data' falls through
SyncEvent(tag) ==
    /\ swState = "activated"
    /\ sync.pc \in {"idle", "ignored", "resolved", "rejected"}
    /\ sync.count < MaxSyncs
    /\ sync' = [NoSync EXCEPT !.tag = tag, !.count = sync.count + 1,
                              !.pc = IF tag = "sync-data" THEN "open" ELSE "ignored"]
    /\ UNCHANGED <<otherSwVars, cacheVars, handlers>>
    /\ UNCHANGED <<selVars, mapVars, pwaVars, notifyVars>>

\* syncData: const cache = await caches.open(RUNTIME_CACHE)
SyncOpen ==
    /\ sync.pc = "open"
    /\ cacheNames' = OpenedNames(cacheNames, RUNTIME_CACHE)
    /\ sync' = [sync EXCEPT !.pc = "keys", !.epoch = cacheEpoch[RUNTIME_CACHE]]
    /\ UNCHANGED <<otherSwVars, cacheEntries, cacheEpoch, handlers>>
    /\ UNCHANGED <<selVars, mapVars, pwaVars, notifyVars>>

\* syncData: const requests = await cache.keys()
SyncKeys ==
    /\ sync.pc = "keys"
    /\ LET ks == IF CacheExists(cacheNames, RUNTIME_CACHE)
                    /\ cacheEpoch[RUNTIME_CACHE] = sync.epoch
                 THEN KeysOf(cacheEntries[RUNTIME_CACHE]) ELSE {}
       IN  sync' = [sync EXCEPT !.pc = "loop", !.keys = ks, !.left = ks]
    /\ UNCHANGED <<otherSwVars, cacheVars, handlers>>
    /\ UNCHANGED <<selVars, mapVars, pwaVars, notifyVars>>

\* syncData: the for loop, one await at a time.  At "loop" the next request
\* is tested; at "fetch" `await fetch(request)` settles (a rejection goes to
\* the inner catch); at "delete" `await cache.delete(request)` settles.
SyncLoop ==
    /\ sync.pc \in {"loop", "fetch", "delete"}
    /\ CASE sync.pc = "loop" ->
              /\ IF sync.left = {}
                   THEN sync' = [sync EXCEPT !.pc = "resolved"]
                   ELSE \E r \in sync.left :
                          sync' = IF Replayable(r)
                                    THEN [sync EXCEPT !.pc = "fetch", !.current = r,
                                                      !.left = @ \ {r}]
                                    ELSE [sync EXCEPT !.left = @ \ {r}]
              /\ UNCHANGED cacheEntries
         [] sync.pc = "fetch" ->
              /\ \E ok \in BOOLEAN :
                   sync' = IF ok
                             THEN [sync EXCEPT !.pc = "delete",
                                               !.replayed = @ \cup {sync.current}]
                             ELSE [sync EXCEPT !.pc = "loop",
                                               !.replayed = @ \cup {sync.current},
                                               !.failed = @ \cup {sync.current}]
              /\ UNCHANGED cacheEntries
         [] sync.pc = "delete" ->
              /\ cacheEntries' =
                   IF CacheExists(cacheNames, RUNTIME_CACHE)
                      /\ cacheEpoch[RUNTIME_CACHE] = sync.epoch
                   THEN [cacheEntries EXCEPT
                            ![RUNTIME_CACHE] = DeletedEntry(@, sync.current)]
                   ELSE cacheEntries
              /\ sync' = [sync EXCEPT !.pc = "loop", !.deleted = @ \cup {sync.current}]
    /\ UNCHANGED <<otherSwVars, cacheNames, cacheEpoch, handlers>>
    /\ UNCHANGED <<selVars, mapVars, pwaVars, notifyVars>>

-----------------------------------------------------------------------------
(* Push notifications: the push and notificationclick handlers *)

\* push events in one behaviour
MaxPushes == 1
\* windows the user opens in one behaviour
MaxWindows == 1

Absent == "undefined"
EmptyObject == "{}"

FieldNames == {"title", "body", "icon", "badge", "tag"}

\* let notificationData = { ... }
DefaultField(f) ==
    CASE f = "title" -> "Council App Notification"
      [] f = "body" -> "You have a new notification"
      [] f = "icon" -> "/icon-192.png"
      [] f = "badge" -> "/icon-192.png"
      [] f = "tag" -> "council-notification"

DefaultNotification ==
    [fields |-> [f \in FieldNames |-> DefaultField(f)], requireInteraction |-> "false",
     data |-> Absent]

\* what a member of a parsed payload can hold: nothing, the empty string or
\* a text; requireInteraction: nothing or a boolean; data: nothing, an object
\* without url, or an object whose url is the given one
FieldValues == {Absent, "", "from payload"}
FlagValues == {Absent, "true", "false"}
DataValues == {Absent, EmptyObject, "/reports", "https://council.example/reports"}

NoFields == [f \in FieldNames |-> Absent]

\* event.data of a push event: null, or a message whose text is not JSON, is
\* the JSON null, a JSON number, or a JSON object
NoPayload == [kind |-> "none", text |-> "", fields |-> NoFields,
              requireInteraction |-> Absent, data |-> Absent]
TextPayload == [NoPayload EXCEPT !.kind = "malformed", !.text = "Road closed today"]
NullPayload == [NoPayload EXCEPT !.kind = "null", !.text = "null"]
NumberPayload == [NoPayload EXCEPT !.kind = "number", !.text = "5"]
ObjectPayloads ==
    { [kind |-> "object", text |-> "{...}", fields |-> fs, requireInteraction |-> ri,
       data |-> d] :
        fs \in [FieldNames -> FieldValues], ri \in FlagValues, d \in DataValues }
Payloads == {NoPayload, TextPayload, NullPayload, NumberPayload} \cup ObjectPayloads

\* the payloads that differ in what a click on their notification reads
DataPayloads ==
    {NoPayload} \cup { p \in ObjectPayloads : p.fields = NoFields /\ p.requireInteraction = Absent }

\* event.data.json() throws a SyntaxError
JsonThrows(p) == p.kind = "malformed"

\* data.title of the parsed value throws a TypeError: the value is null
MemberReadThrows(p) == p.kind = "null"

\* a || b: undefined, the empty string and false (written "false") give b
OrElse(a, b) == IF a \in {Absent, "", "false"} THEN b ELSE a

\* the object literal assigned to notificationData in the try block
ParsedNotification(p) ==
    [fields |-> [f \in FieldNames |-> OrElse(p.fields[f], DefaultField(f))],
     requireInteraction |-> OrElse(p.requireInteraction, "false"),
     data |-> OrElse(p.data, EmptyObject)]

\* notificationData when showNotification is called
NotificationData(p) ==
    IF p.kind = "none" THEN DefaultNotification
    ELSE IF JsonThrows(p) \/ MemberReadThrows(p)
    THEN [DefaultNotification EXCEPT !.fields["body"] = p.text]
    ELSE ParsedNotification(p)

NoPush == [payload |-> NoPayload, shown |-> <<>>]
NoClick == [pc |-> "idle", notification |-> 0, action |-> "", target |-> "",
            snapshot |-> <<>>, focused |-> 0, opened |-> <<>>]

\* self.addEventListener('push', ...): one showNotification call, which
\* displays the notification
PushEvent(p) ==
    /\ swState = "activated"
    /\ pushCount < MaxPushes
    /\ pushCount' = pushCount + 1
    /\ lastPush' = [payload |-> p, shown |-> <<NotificationData(p)>>]
    /\ notifications' = Append(notifications, [data |-> NotificationData(p).data,
                                               closed |-> FALSE])
    /\ UNCHANGED <<clients, click>>
    /\ UNCHANGED <<otherSwVars, cacheVars, handlers, sync>>
    /\ UNCHANGED <<selVars, mapVars, pwaVars>>

\* the absolute URLs of the pages of the origin
ClientUrls == {"https://council.example/", "https://council.example/reports"}

\* the URL a window opened for a target is at
Resolved(target) ==
    CASE target = "/" -> "https://council.example/"
      [] target = "/reports" -> "https://council.example/reports"
      [] OTHER -> target

\* the user opens a window of the origin, or closes one
WindowOpens(u) ==
    /\ Len(clients) < MaxWindows
    /\ clients' = Append(clients, u)
    /\ UNCHANGED <<pushCount, lastPush, notifications, click>>
    /\ UNCHANGED <<otherSwVars, cacheVars, handlers, sync>>
    /\ UNCHANGED <<selVars, mapVars, pwaVars>>

WindowCloses ==
    /\ clients # <<>>
    /\ clients' = Tail(clients)
    /\ UNCHANGED <<pushCount, lastPush, notifications, click>>
    /\ UNCHANGED <<otherSwVars, cacheVars, handlers, sync>>
    /\ UNCHANGED <<selVars, mapVars, pwaVars>>

\* a handler that opens the application on every click
IsView_AnyAction(action) == TRUE

\* if (event.action === 'view')
IsView(action) == action = "view"

\* event.notification.data?.url || '/'
UrlToOpen(data) == IF data \in {Absent, EmptyObject} THEN "/" ELSE data

\* the buttons of the notification, and a click on its body
ClickActions == {"view", "dismiss", ""}

\* self.addEventListener('notificationclick', ...), up to clients.matchAll
NotificationClick(i, action) ==
    /\ swState = "activated"
    /\ click.pc # "matching"
    /\ i \in 1 .. Len(notifications)
    /\ ~notifications[i].closed
    /\ notifications' = [notifications EXCEPT ![i].closed = TRUE]
    /\ click' = [NoClick EXCEPT !.pc = IF IsView(action) THEN "matching" ELSE "done",
                                !.notification = i,
                                !.action = action,
                                !.target = IF IsView(action)
                                           THEN UrlToOpen(notifications[i].data) ELSE ""]
    /\ UNCHANGED <<pushCount, lastPush, clients>>
    /\ UNCHANGED <<otherSwVars, cacheVars, handlers, sync>>
    /\ UNCHANGED <<selVars, mapVars, pwaVars>>

\* client.url === urlToOpen
Matching(windowClients, target) ==
    { j \in 1 .. Len(windowClients) : windowClients[j] = target }

\* first member of a non-empty set of indices
First(js) == CHOOSE j \in js : \A k \in js : j <= k

\* clients.matchAll(...) resolves: the loop over the window clients, then
\* clients.openWindow(urlToOpen)
MatchAllResolves ==
    /\ click.pc = "matching"
    /\ IF Matching(clients, click.target) # {}
         THEN /\ click' = [click EXCEPT !.pc = "done", !.snapshot = clients,
                                        !.focused = First(Matching(clients, click.target))]
              /\ UNCHANGED clients
         ELSE /\ click' = [click EXCEPT !.pc = "done", !.snapshot = clients,
                                        !.opened = <<click.target>>]
              /\ clients' = Append(clients, Resolved(click.target))
    /\ UNCHANGED <<pushCount, lastPush, notifications>>
    /\ UNCHANGED <<otherSwVars, cacheVars, handlers, sync>>
    /\ UNCHANGED <<selVars, mapVars, pwaVars>>

-----------------------------------------------------------------------------
(* The service worker as a whole *)

PreviousPrecache == {"/", "/offline.html", "/css/app.css"}

\* Cache Storage of the origin when this generation of the worker is
\* installed: empty on a first visit, or what an earlier generation left
FreshStorage ==
    /\ cacheNames = <<>>
    /\ cacheEntries = [n \in AllCacheNames |-> NoEntries]

UpgradedStorage ==
    /\ cacheNames = <<"council-app-v0.9.0", RUNTIME_CACHE, "council-app-tiles">>
    /\ cacheEntries =
         [n \in AllCacheNames |->
            IF n = "council-app-v0.9.0"
            THEN [u \in PreviousPrecache |-> Fetched(u, 200, "previous")]
            ELSE IF n = RUNTIME_CACHE
            THEN [u \in {"/api/data"} |-> Fetched(u, 200, "previous")]
            ELSE NoEntries]

InitWorker ==
    /\ swState = "parsed"
    /\ installPc = "idle"
    /\ installEpoch = 0
    /\ activatePc = "idle"
    /\ activateKeys = {}
    /\ activateLeft = {}
    /\ cacheEpoch = [n \in AllCacheNames |-> 0]
    /\ handlers = [h \in Handlers \cup Overlapping |-> IdleHandler]
    /\ skipWaitingFlag = FALSE
    /\ msg = NoMessage
    /\ msgCount = 0
    /\ sync = NoSync
    /\ pushCount = 0 /\ lastPush = NoPush /\ notifications = <<>>
    /\ clients = <<>> /\ click = NoClick

InitSW == InitWorker /\ (FreshStorage \/ UpgradedStorage)
IdleSW == InitWorker /\ FreshStorage

NextSW ==
    \/ InstallEvent
    \/ InstallOpen
    \/ \E ok \in BOOLEAN : InstallAddAll(ok)
    \/ InstallSkipWaiting
    \/ ActivateEvent
    \/ ActivateKeys
    \/ \E n \in AllCacheNames : ActivateDelete(n)
    \/ ActivateClaim
    \/ \E t \in MessageTypes : \E urls \in UrlLists : MessageEvent(t, urls)
    \/ CacheUrlsOpen
    \/ \E ok \in BOOLEAN : CacheUrlsAddAll(ok)
    \/ ClearCacheKeys
    \/ \E n \in AllCacheNames : ClearCacheDelete(n)
    \/ \E h \in Handlers : \E req \in Requests : FetchEvent(h, req)
    \/ \E h \in Handlers : CfMatch(h)
    \/ \E h \in Handlers : \E st \in FetchOutcomes : CfFetch(h, st)
    \/ \E h \in Handlers : CfOpen(h)
    \/ \E h \in Handlers : \E st \in FetchOutcomes : NfFetch(h, st)
    \/ \E h \in Handlers : NfOpen(h)
    \/ \E h \in Handlers : NfMatch(h)
    \/ \E h \in Handlers : NfOffline(h)
    \/ \E h \in Handlers : PutComplete(h)

\* background sync next to the fetch events that fill the runtime cache
NextSync ==
    \/ InstallEvent
    \/ InstallOpen
    \/ \E ok \in BOOLEAN : InstallAddAll(ok)
    \/ InstallSkipWaiting
    \/ ActivateEvent
    \/ ActivateKeys
    \/ \E n \in AllCacheNames : ActivateDelete(n)
    \/ ActivateClaim
    \/ \E h \in Handlers : \E req \in Requests : FetchEvent(h, req)
    \/ \E h \in Handlers : CfMatch(h)
    \/ \E h \in Handlers : \E st \in FetchOutcomes : CfFetch(h, st)
    \/ \E h \in Handlers : CfOpen(h)
    \/ \E h \in Handlers : \E st \in FetchOutcomes : NfFetch(h, st)
    \/ \E h \in Handlers : NfOpen(h)
    \/ \E h \in Handlers : NfMatch(h)
    \/ \E h \in Handlers : NfOffline(h)
    \/ \E h \in Handlers : PutComplete(h)
    \/ \E tag \in SyncTags : SyncEvent(tag)
    \/ SyncOpen
    \/ SyncKeys
    \/ SyncLoop

\* the executor functions on their own: the worker's lifecycle, then each
\* executor applied to each request
NextExecutors ==
    \/ InstallEvent
    \/ InstallOpen
    \/ \E ok \in BOOLEAN : InstallAddAll(ok)
    \/ InstallSkipWaiting
    \/ ActivateEvent
    \/ ActivateKeys
    \/ \E n \in AllCacheNames : ActivateDelete(n)
    \/ ActivateClaim
    \/ \E h \in Handlers : \E req \in Requests : \E s \in Executors : ExecutorCall(h, req, s)
    \/ \E h \in Handlers : CfMatch(h)
    \/ \E h \in Handlers : \E st \in FetchOutcomes : CfFetch(h, st)
    \/ \E h \in Handlers : CfOpen(h)
    \/ \E h \in Handlers : \E st \in FetchOutcomes : NfFetch(h, st)
    \/ \E h \in Handlers : NfOpen(h)
    \/ \E h \in Handlers : NfMatch(h)
    \/ \E h \in Handlers : NfOffline(h)
    \/ \E h \in Handlers : SwrMatch(h)
    \/ \E h \in Handlers : \E st \in FetchOutcomes : SwrFetch(h, st)
    \/ \E h \in Handlers : SwrOpen(h)
    \/ \E h \in Handlers : SwrPut(h)
    \/ \E h \in Handlers : PutComplete(h)



-----------------------------------------------------------------------------
(* Bounds of the map-wrapper model *)

\* overlays in one behaviour that fills and clears the registries
MaxRegistered == 2
\* L.map calls in one behaviour
MaxMaps == 2
\* layer objects created in one behaviour
MaxOverlays == 1
\* clock ticks in one behaviour
MaxClock == 1

-----------------------------------------------------------------------------
(* GeoJSON values and their JSON text.  A value is an object, a JSON text  *)
(* (a string) or null; JSON.stringify and JSON.parse convert between the   *)
(* first two.  A feature is represented by its geometry type.              *)

FC(fs) == [form |-> "object", type |-> "FeatureCollection", features |-> fs,
           wellFormed |-> TRUE]
InvalidObject == [form |-> "object", type |-> "Unknown", features |-> <<>>,
                  wellFormed |-> TRUE]
MalformedText == [form |-> "text", type |-> "", features |-> <<>>, wellFormed |-> FALSE]
NullValue     == [form |-> "null", type |-> "", features |-> <<>>, wellFormed |-> TRUE]

\* JSON.stringify(o)
Stringify(o) == [o EXCEPT !.form = "text"]
\* JSON.parse(t) throws on an object ("[object Object]") and on malformed text
ParseThrows(t) == t.form = "object" \/ ~t.wellFormed
\* JSON.parse(t) otherwise; JSON.parse(null) is null
Parse(t) == IF t.form = "text" THEN [t EXCEPT !.form = "object"] ELSE t

\* L.geoJSON(x) throws 'Invalid GeoJSON object.' for a string and for an
\* object that is no GeoJSON; L.geoJSON(null) is an empty layer
GeoJsonThrows(x) ==
    \/ x.form = "text"
    \/ x.form = "object" /\ x.type \notin {"FeatureCollection", "Feature"}

\* the layers L.geoJSON(x) builds: one per feature that has a geometry
GeoJsonChildren(x) == SelectSeq(x.features, LAMBDA f : f # "NullGeometry")

GeoJsonObjects == { FC(<<>>), FC(<<"Polygon", "NullGeometry">>) }
GeoJsonInputs  == GeoJsonObjects \cup {InvalidObject}
LayerDataInputs == { Stringify(o) : o \in GeoJsonInputs } \cup {MalformedText}

-----------------------------------------------------------------------------
(* Leaflet (library) *)

Elements == {"map", "map2", "missing"}

LiveMaps == { m \in 1 .. Len(maps) : ~maps[m].removed }
IsLive(m) == m \in LiveMaps

\* L.map(el) throws when the element does not exist ('Map container not
\* found.') or already holds a map ('Map container is already initialized.')
MapThrows(ms, el) ==
    \/ el = "missing"
    \/ \E m \in 1 .. Len(ms) : ~ms[m].removed /\ ms[m].container = el

MapCreated(ms, el) == Append(ms, [container |-> el, removed |-> FALSE])

\* map.remove(): destroys the map and removes every layer from it
MapRemoved(ms, m) == [ms EXCEPT ![m].removed = TRUE]
LayersRemoved(ovs, m) ==
    [i \in DOMAIN ovs |-> IF ovs[i].on = m THEN [ovs[i] EXCEPT !.on = 0] ELSE ovs[i]]

\* layer.addTo(m) / m.removeLayer(layer)
Attached(ovs, objs, m) ==
    [i \in DOMAIN ovs |-> IF i \in objs THEN [ovs[i] EXCEPT !.on = m] ELSE ovs[i]]
Detached(ovs, objs, m) ==
    [i \in DOMAIN ovs |-> IF i \in objs /\ ovs[i].on = m THEN [ovs[i] EXCEPT !.on = 0]
                          ELSE ovs[i]]

Overlay(kind, fs, m) == [kind |-> kind, features |-> fs, on |-> m]

\* layer.addTo(m) on a map that was removed: a marker or path throws (its
\* pane is gone); a group throws when it adds its first child, so an empty
\* group is accepted and shown nowhere
AddToThrows(m, fs) == ~IsLive(m) /\ fs # <<>>
Shown(m) == IF IsLive(m) THEN m ELSE 0
OnMap(m) == { i \in DOMAIN overlays : overlays[i].on = m }

\* the features of layer.toGeoJSON(): one for a marker, circle or polygon,
\* the children's for a GeoJSON layer
ToGeoJsonFeatures(ovs, i) == ovs[i].features

KindFeatures(kind) ==
    IF kind = "polygon" THEN <<"Polygon">>
    ELSE IF kind = "polyline" THEN <<"LineString">>
    ELSE <<"Point">>

-----------------------------------------------------------------------------
(* What every wrapper call leaves for the observer *)

\* the last call: its name, whether it came right after a clearMap, whether the wrapper held a
\* handle when it was made, whether it threw and whether it logged an error
NoCall == [op |-> "none", arg |-> "", afterClear |-> FALSE, hadMap |-> FALSE,
           threw |-> FALSE, logged |-> FALSE]
Call(op, threw, logged) ==
    [op |-> op, arg |-> "", afterClear |-> lastCall.op = "clearMap", hadMap |-> map # 0,
     threw |-> threw, logged |-> logged]
\* the same for a call whose identifier argument matters to the observer
CallWith(op, id, threw, logged) == [Call(op, threw, logged) EXCEPT !.arg = id]

ExportOps == {"exportToGeoJson", "getDrawnGeoJson"}
ImportOps == {"addLayer", "addDrawnFromGeoJson"}
NoRoundTrip == [phase |-> 0, count |-> 0]

\* 1 after an export of everything (with the number of features exported),
\* 2 after a clearMap that follows it, 3 after an import of the exported
\* data that follows that
RoundTripAfter(op, data, result) ==
    IF op \in ExportOps THEN [phase |-> 1, count |-> Len(result.features)]
    ELSE IF op = "clearMap" /\ roundTrip.phase = 1 THEN [roundTrip EXCEPT !.phase = 2]
    ELSE IF op \in ImportOps /\ roundTrip.phase = 2 /\ data = exported
    THEN [roundTrip EXCEPT !.phase = 3]
    ELSE NoRoundTrip

\* a call that returns or throws without touching the wrapper's state
Returns(op, threw, logged) ==
    /\ lastCall' = Call(op, threw, logged)
    /\ roundTrip' = RoundTripAfter(op, NullValue, NullValue)
    /\ UNCHANGED <<wrapper, leafletVars, map, registryVars, exported>>

\* time passes; only the GIS wrapper reads the clock (Date.now())
Tick ==
    /\ wrapper = "gis"
    /\ now < MaxClock
    /\ now' = now + 1
    /\ UNCHANGED <<wrapper, maps, overlays, map, registryVars, lastCall, exported,
                   roundTrip, selVars, swVars, pwaVars, drawVars>>

-----------------------------------------------------------------------------
(* Registries keyed by identifier: a JavaScript object used as a dictionary, *)
(* kept as the sequence of its entries in insertion order.                   *)

HasKey(reg, id) == \E i \in 1 .. Len(reg) : reg[i].id = id
Lookup(reg, id) == reg[CHOOSE i \in 1 .. Len(reg) : reg[i].id = id].obj
Assign(reg, id, o) ==
    IF HasKey(reg, id)
    THEN [i \in 1 .. Len(reg) |-> IF reg[i].id = id THEN [id |-> id, obj |-> o] ELSE reg[i]]
    ELSE Append(reg, [id |-> id, obj |-> o])
Delete(reg, id) == SelectSeq(reg, LAMBDA e : e.id # id)
Values(reg) == { reg[i].obj : i \in 1 .. Len(reg) }

\* names every JavaScript object inherits from Object.prototype (toString,
\* constructor, valueOf, ...): reg[id] is a function for them, so truthy
InheritedKeys == {"toString"}
\* if (layers[layerId]): an own entry or an inherited property
Defined(reg, id) == HasKey(reg, id) \/ id \in InheritedKeys

RECURSIVE Flatten(_, _)
\* the features of the listed layers, one layer after the other
Flatten(ovs, objs) ==
    IF objs = <<>> THEN <<>>
    ELSE ToGeoJsonFeatures(ovs, Head(objs)) \o Flatten(ovs, Tail(objs))

-----------------------------------------------------------------------------
(* GIS wrapper (src/unnamed/part_000) *)

\* identifiers the host passes to addLayer / removeLayer / exportToGeoJson
LayerIds == {"parcels", "toString"}

\* `marker_${Date.now()}` and the like
\* identifiers numbered by a counter of the objects created
StampedId_Counter(prefix) == prefix \o "_" \o ToString(Len(overlays))

StampedId(prefix) == prefix \o "_" \o ToString(now)

unusedByGis == <<polygons, parcels, chiefdomBoundaries, layerGroup, drawnItems,
                 drawControl>>

\* L.tileLayer(...).addTo(m): the base layer of a map, or the labels overlay
\* of the hybrid base map
TileLayer(role, type, m) == [role |-> role, type |-> type, on |-> m]

\* createMap / initializeLeafletMap:  if (map) { map.remove(); }
CreateMapReleases(m) == m # 0

\* export function createMap(elementId, lat, lng, zoom)
GisCreateMap(el) ==
    /\ wrapper = "gis"
    /\ LET release == CreateMapReleases(map)
           ms1 == IF release THEN MapRemoved(maps, map) ELSE maps
           ov1 == IF release THEN LayersRemoved(overlays, map) ELSE overlays
       IN  IF release /\ ~IsLive(map)
           THEN \* map.remove() on a map that was removed already throws
                /\ Returns("createMap", TRUE, FALSE)
                /\ UNCHANGED <<selVars, swVars, pwaVars, drawVars>>
           ELSE /\ IF MapThrows(ms1, el)
                   THEN /\ maps' = ms1
                        /\ map' = map
                   ELSE /\ Len(maps) < MaxMaps
                        /\ maps' = MapCreated(ms1, el)
                        /\ map' = Len(maps) + 1
                /\ tileLayers' =
                     IF MapThrows(ms1, el) THEN LayersRemoved(tileLayers, map)
                     ELSE Append(IF release THEN LayersRemoved(tileLayers, map)
                                 ELSE tileLayers,
                                 TileLayer("base", "osm", Len(maps) + 1))
                /\ currentBaseLayer' =
                     IF MapThrows(ms1, el) THEN currentBaseLayer ELSE Len(tileLayers) + 1
                /\ overlays' = ov1
                /\ lastCall' = Call("createMap", MapThrows(ms1, el), FALSE)
                /\ roundTrip' = NoRoundTrip
                /\ UNCHANGED <<wrapper, now, registryVars, exported, selVars, swVars, pwaVars,
                               toolVars, issued>>

GisShapeOps == {"addMarker", "addCircle", "addPolygon"}
GisKind(op) == IF op = "addMarker" THEN "marker"
               ELSE IF op = "addCircle" THEN "circle" ELSE "polygon"

\* an add operation that does not test the handle first
HandleAbsent_Unchecked(m) == FALSE

\* if (!map) return;
HandleAbsent(m) == m = 0

\* the map types the host passes to changeBaseMap: the default, the one with
\* a labels overlay, the one that needs an API key, and one that falls to
\* the default branch of the switch
BaseMapTypes == {"osm", "hybrid", "mapbox-satellite", "unknown"}

\* the tile layers changeBaseMap may create in all
MaxTiles == 4

\* case 'mapbox-satellite':  if (!apiKey) { console.error(...); return; }
NeedsKey(mapType, hasKey) == mapType = "mapbox-satellite" /\ ~hasKey

\* export function changeBaseMap(mapType, apiKey)
GisChangeBaseMap(mapType, hasKey) ==
    /\ wrapper = "gis"
    /\ IF HandleAbsent(map)
       THEN /\ Returns("changeBaseMap", FALSE, FALSE)
            /\ UNCHANGED baseVars
       ELSE LET \* if (currentBaseLayer) { map.removeLayer(currentBaseLayer); }
                off == IF currentBaseLayer # 0
                       THEN Detached(tileLayers, {currentBaseLayer}, map)
                       ELSE tileLayers
                base == Append(off, TileLayer("base", mapType, map))
            IN  /\ IF NeedsKey(mapType, hasKey)
                   THEN /\ tileLayers' = off
                        /\ currentBaseLayer' = currentBaseLayer
                        /\ lastCall' = Call("changeBaseMap", FALSE, TRUE)
                   ELSE IF AddToThrows(map, <<"tile">>)
                   THEN /\ tileLayers' = off
                        /\ currentBaseLayer' = currentBaseLayer
                        /\ lastCall' = Call("changeBaseMap", TRUE, FALSE)
                   ELSE /\ Len(base) + (IF mapType = "hybrid" THEN 1 ELSE 0) <= MaxTiles
                        /\ tileLayers' =
                             IF mapType = "hybrid"
                             THEN Append(base, TileLayer("labels", mapType, map))
                             ELSE base
                        /\ currentBaseLayer' = Len(base)
                        /\ lastCall' = Call("changeBaseMap", FALSE, FALSE)
                /\ roundTrip' = NoRoundTrip
                /\ UNCHANGED <<wrapper, leafletVars, map, registryVars, exported>>
    /\ UNCHANGED <<selVars, swVars, pwaVars, toolVars, issued>>

\* the base map of one GIS map: created, re-created on the same element or on
\* a missing one, and switched between map types
NextBase ==
    \/ \E el \in {"map", "missing"} : GisCreateMap(el)
    \/ \E mapType \in BaseMapTypes, hasKey \in BOOLEAN : GisChangeBaseMap(mapType, hasKey)

\* export function addMarker / addCircle / addPolygon
GisAddShapeUpTo(op, bound) ==
    /\ wrapper = "gis"
    /\ IF HandleAbsent(map)
       THEN Returns(op, FALSE, FALSE)
       ELSE IF AddToThrows(map, KindFeatures(GisKind(op)))
       THEN Returns(op, TRUE, FALSE)     \* L.marker(...).addTo(map) throws
       ELSE /\ Len(overlays) < bound
            /\ overlays' = Append(overlays, Overlay(GisKind(op), KindFeatures(GisKind(op)), map))
            /\ IF op = "addMarker"
               THEN /\ markers' = Assign(markers, StampedId(GisKind(op)), Len(overlays) + 1)
                    /\ layers' = layers
               ELSE /\ layers' = Assign(layers, StampedId(GisKind(op)), Len(overlays) + 1)
                    /\ markers' = markers
            /\ lastCall' = Call(op, FALSE, FALSE)
            /\ roundTrip' = NoRoundTrip
            /\ UNCHANGED <<wrapper, maps, now, map, unusedByGis, exported>>
    /\ UNCHANGED <<selVars, swVars, pwaVars, drawingVars>>

GisAddShape(op) == GisAddShapeUpTo(op, MaxOverlays) /\ UNCHANGED issued

\* export function addGeoJson(geoJson, options)
GisAddGeoJsonUpTo(g, bound) ==
    /\ wrapper = "gis"
    /\ IF HandleAbsent(map)
       THEN Returns("addGeoJson", FALSE, FALSE)
       ELSE IF GeoJsonThrows(g) \/ AddToThrows(map, GeoJsonChildren(g))
       THEN Returns("addGeoJson", TRUE, FALSE)
       ELSE /\ Len(overlays) < bound
            /\ overlays' = Append(overlays,
                                  Overlay("geojson", GeoJsonChildren(g), Shown(map)))
            /\ layers' = Assign(layers, StampedId("geojson"), Len(overlays) + 1)
            /\ lastCall' = Call("addGeoJson", FALSE, FALSE)
            /\ roundTrip' = NoRoundTrip
            /\ UNCHANGED <<wrapper, maps, now, map, markers, unusedByGis, exported>>
    /\ UNCHANGED <<selVars, swVars, pwaVars, drawingVars>>

GisAddGeoJson(g) == GisAddGeoJsonUpTo(g, MaxOverlays) /\ UNCHANGED issued

\* export function addLayer(layerId, layerData, style)
GisAddLayerUpTo(id, data, bound) ==
    /\ wrapper = "gis"
    /\ IF HandleAbsent(map)
       THEN /\ lastCall' = Call("addLayer", FALSE, FALSE)
            /\ roundTrip' = RoundTripAfter("addLayer", data, NullValue)
            /\ UNCHANGED <<wrapper, leafletVars, map, registryVars, exported>>
       ELSE IF \/ ParseThrows(data) \/ GeoJsonThrows(Parse(data))
               \/ AddToThrows(map, GeoJsonChildren(Parse(data)))
       THEN \* catch (e) { console.error('Error adding layer:', e); }
            /\ lastCall' = Call("addLayer", FALSE, TRUE)
            /\ roundTrip' = RoundTripAfter("addLayer", data, NullValue)
            /\ UNCHANGED <<wrapper, leafletVars, map, registryVars, exported>>
       ELSE /\ Len(overlays) < bound
            /\ overlays' = Append(overlays,
                                  Overlay("geojson", GeoJsonChildren(Parse(data)),
                                          Shown(map)))
            /\ layers' = Assign(layers, id, Len(overlays) + 1)
            /\ lastCall' = Call("addLayer", FALSE, FALSE)
            /\ roundTrip' = RoundTripAfter("addLayer", data, NullValue)
            /\ UNCHANGED <<wrapper, maps, now, map, markers, unusedByGis, exported>>
    /\ UNCHANGED <<selVars, swVars, pwaVars, drawVars>>

GisAddLayer(id, data) == GisAddLayerUpTo(id, data, MaxOverlays)

\* export function removeLayer(layerId)
GisRemoveLayer(id) ==
    /\ wrapper = "gis"
    /\ IF HasKey(layers, id)
       THEN /\ overlays' = Detached(overlays, {Lookup(layers, id)}, map)
            /\ layers' = Delete(layers, id)
            /\ lastCall' = CallWith("removeLayer", id, FALSE, FALSE)
            /\ roundTrip' = NoRoundTrip
            /\ UNCHANGED <<wrapper, maps, now, map, markers, unusedByGis, exported>>
       ELSE \* an inherited property passes the test: map.removeLayer(...) is
            \* reached, which throws when map is null and otherwise finds
            \* nothing to detach; delete layers[layerId] then removes nothing
            /\ lastCall' = CallWith("removeLayer", id,
                                    Defined(layers, id) /\ map = 0, FALSE)
            /\ roundTrip' = NoRoundTrip
            /\ UNCHANGED <<wrapper, leafletVars, map, registryVars, exported>>
    /\ UNCHANGED <<selVars, swVars, pwaVars, drawVars>>

\* a clearMap that forgets to reset the layer registry
ClearedLayers_Kept(reg) == reg

\* clearMap:  layers = {};
ClearedLayers(reg) == <<>>

\* export function clearMap()
GisClearMap ==
    /\ wrapper = "gis"
    /\ IF HandleAbsent(map)
       THEN /\ lastCall' = Call("clearMap", FALSE, FALSE)
            /\ roundTrip' = RoundTripAfter("clearMap", NullValue, NullValue)
            /\ UNCHANGED <<wrapper, leafletVars, map, registryVars, exported>>
       ELSE /\ overlays' = Detached(overlays, Values(layers) \cup Values(markers), map)
            /\ layers' = ClearedLayers(layers)
            /\ markers' = <<>>
            /\ lastCall' = Call("clearMap", FALSE, FALSE)
            /\ roundTrip' = RoundTripAfter("clearMap", NullValue, NullValue)
            /\ UNCHANGED <<wrapper, maps, now, map, unusedByGis, exported>>
    /\ UNCHANGED <<selVars, swVars, pwaVars, drawVars>>

RegistryObjects(reg) == [i \in 1 .. Len(reg) |-> reg[i].obj]

\* exportToGeoJson, "Export all layers": one collection of every layer's features
ExportAllLayers(ovs, reg) == Stringify(FC(Flatten(ovs, RegistryObjects(reg))))

\* exportToGeoJson, first branch: JSON.stringify(layers[layerId].toGeoJSON())
ExportOneLayer(ovs, o) ==
    Stringify([form |-> "object",
               type |-> IF ovs[o].kind = "geojson" THEN "FeatureCollection" ELSE "Feature",
               features |-> ToGeoJsonFeatures(ovs, o), wellFormed |-> TRUE])

\* export function exportToGeoJson(layerId)
GisExportToGeoJson(id) ==
    /\ wrapper = "gis"
    /\ IF id # "" /\ HasKey(layers, id)
       THEN /\ exported' = ExportOneLayer(overlays, Lookup(layers, id))
            /\ lastCall' = Call("exportToGeoJson(layerId)", FALSE, FALSE)
            /\ roundTrip' = NoRoundTrip
       ELSE IF id # "" /\ Defined(layers, id)
       THEN \* an inherited property has no toGeoJSON: TypeError
            /\ exported' = exported
            /\ lastCall' = Call("exportToGeoJson(layerId)", TRUE, FALSE)
            /\ roundTrip' = NoRoundTrip
       ELSE /\ exported' = ExportAllLayers(overlays, layers)
            /\ lastCall' = Call("exportToGeoJson", FALSE, FALSE)
            /\ roundTrip' = RoundTripAfter("exportToGeoJson", NullValue,
                                           ExportAllLayers(overlays, layers))
    /\ UNCHANGED <<wrapper, leafletVars, map, registryVars, selVars, swVars, pwaVars, drawVars>>

NextGis ==
    \/ \E el \in Elements : GisCreateMap(el)
    \/ \E op \in GisShapeOps : GisAddShape(op)
    \/ \E g \in GeoJsonInputs : GisAddGeoJson(g)
    \/ \E id \in LayerIds : \E data \in LayerDataInputs \cup {exported} : GisAddLayer(id, data)
    \/ \E id \in LayerIds : GisRemoveLayer(id)
    \/ GisClearMap
    \/ \E id \in LayerIds \cup {""} : GisExportToGeoJson(id)

\* add calls in one behaviour of the identifier specification
MaxStamped == 2

\* the kind an identifier is generated for, and the registry that holds it
StampedKinds == {"marker", "circle", "polygon", "geojson"}
RegistryOf(kind) == IF kind = "marker" THEN markers ELSE layers

\* an add call together with what it returned: the call has added an overlay
\* exactly when it returned an identifier, which is the key of that overlay
Issued(kind) ==
    issued' =
      IF Len(overlays') > Len(overlays)
      THEN Append(issued,
                  [kind |-> kind, tick |-> now, obj |-> Len(overlays'),
                   id |-> (CHOOSE e \in { RegistryOf(kind)'[i] : i \in 1 .. Len(RegistryOf(kind)') } :
                             e.obj = Len(overlays')).id])
      ELSE issued

IssuingAddShape(op) == GisAddShapeUpTo(op, MaxStamped) /\ Issued(GisKind(op))
IssuingAddGeoJson(g) == GisAddGeoJsonUpTo(g, MaxStamped) /\ Issued("geojson")

NextIds ==
    \/ GisCreateMap("map")
    \/ \E op \in GisShapeOps : IssuingAddShape(op)
    \/ \E g \in GeoJsonObjects : IssuingAddGeoJson(g)
    \/ Tick

-----------------------------------------------------------------------------
(* GIS wrapper: drawing modes *)

\* clicks of the user on the map in one behaviour
MaxClicks == 3

ShapeModes == {"marker", "circle", "polygon", "polyline", "rectangle"}
\* a mode the switch has no case for
DrawingModes == ShapeModes \cup {"freehand"}
\* the modes selected next to the measurement tools
ToolModes == {"marker", "polygon", "freehand"}

NoDrawingLayer == [exists |-> FALSE, on |-> 0, shapes |-> <<>>]
NoSession == [mode |-> "", on |-> 0, replaced |-> "", clicks |-> 0, committed |-> <<>>]

\* a listener of enableDrawingMode and the points its closure holds
\* (polygonPoints.length, linePoints.length; 1 for a rectStart that is set)
Listener(m, mode) == [on |-> m, mode |-> mode, points |-> 0]

ListenersOn(hs, m) == SelectSeq(hs, LAMBDA l : l.on = m)

\* a map.off('click') that leaves the listeners attached
WithoutClick_Kept(hs, m) == hs

\* map.off('click'): every click listener of the map is removed
WithoutClick(hs, m) == SelectSeq(hs, LAMBDA l : l.on # m)

\* what one listener does with a click: the points it holds afterwards, the
\* overlays it adds to drawingLayer, and whether it calls map.off('click')
OnClick(l) ==
    CASE l.mode = "marker" ->
           [points |-> l.points, added |-> <<"marker">>, off |-> FALSE]
      [] l.mode = "circle" ->
           [points |-> l.points, added |-> <<"circle">>, off |-> FALSE]
      [] l.mode = "polygon" ->
           IF l.points + 1 = 1
           THEN [points |-> 1, added |-> <<"tempMarker">>, off |-> FALSE]
           ELSE IF l.points + 1 >= 3
           THEN [points |-> 0, added |-> <<"polygon">>, off |-> TRUE]
           ELSE [points |-> l.points + 1, added |-> <<>>, off |-> FALSE]
      [] l.mode = "polyline" ->
           IF l.points + 1 >= 2
           THEN [points |-> l.points + 1, added |-> <<"polyline">>, off |-> FALSE]
           ELSE [points |-> l.points + 1, added |-> <<>>, off |-> FALSE]
      [] l.mode = "rectangle" ->
           IF l.points = 0
           THEN [points |-> 1, added |-> <<>>, off |-> FALSE]
           ELSE [points |-> 0, added |-> <<"rectangle">>, off |-> TRUE]
      [] l.mode = "distance" ->
           [points |-> l.points + 1,
            added |-> <<"measurement-marker">> \o
                      (IF l.points + 1 >= 2 THEN <<"measurement-line", "measurement-label">>
                       ELSE <<>>),
            off |-> FALSE]
      [] l.mode = "area" ->
           [points |-> l.points + 1,
            added |-> <<"measurement-marker">> \o
                      (IF l.points + 1 >= 3 THEN <<"measurement-area", "measurement-label">>
                       ELSE <<>>),
            off |-> FALSE]
      [] OTHER ->
           [points |-> l.points + 1, added |-> <<"measurement-marker">>, off |-> FALSE]

\* the layers a click added, by the group they were added to
MeasurementKinds ==
    {"measurement-marker", "measurement-line", "measurement-area", "measurement-label"}
Drawn(added) == SelectSeq(added, LAMBDA k : k \notin MeasurementKinds)
Measured(added) == SelectSeq(added, LAMBDA k : k \in MeasurementKinds)

\* map.fire('click'): the listeners of the map run in the order attached;
\* after one of them has called map.off('click') the others are not called
RECURSIVE Fire(_, _, _, _)
Fire(hs, m, i, added) ==
    IF i > Len(hs) THEN [listeners |-> hs, added |-> added]
    ELSE IF hs[i].on # m THEN Fire(hs, m, i + 1, added)
    ELSE IF OnClick(hs[i]).off
    THEN [listeners |-> WithoutClick([hs EXCEPT ![i].points = OnClick(hs[i]).points], m),
          added |-> added \o OnClick(hs[i]).added]
    ELSE Fire([hs EXCEPT ![i].points = OnClick(hs[i]).points], m, i + 1,
              added \o OnClick(hs[i]).added)

\* export function enableDrawingMode(mode, options)
GisEnableDrawingMode(mode) ==
    /\ wrapper = "gis"
    /\ IF HandleAbsent(map)
       THEN UNCHANGED <<clickHandlers, currentDrawingMode, drawingLayer, session>>
       ELSE /\ clickHandlers' =
                 IF mode \in ShapeModes
                 THEN Append(WithoutClick(clickHandlers, map), Listener(map, mode))
                 ELSE WithoutClick(clickHandlers, map)
            /\ currentDrawingMode' = mode
            /\ drawingLayer' =
                 IF drawingLayer.exists THEN drawingLayer
                 ELSE [exists |-> TRUE, on |-> Shown(map), shapes |-> <<>>]
            /\ session' =
                 [NoSession EXCEPT
                    !.mode = mode, !.on = map,
                    !.replaced = IF ListenersOn(clickHandlers, map) # <<>>
                                 THEN ListenersOn(clickHandlers, map)[1].mode ELSE ""]
    /\ lastCall' = Call("enableDrawingMode", FALSE, FALSE)
    /\ roundTrip' = NoRoundTrip
    /\ UNCHANGED <<wrapper, leafletVars, map, registryVars, exported, clicks, issued, baseVars,
                   measurementLayer>>
    /\ UNCHANGED <<selVars, swVars, pwaVars>>

\* export function disableDrawingMode()
GisDisableDrawingMode ==
    /\ wrapper = "gis"
    /\ IF HandleAbsent(map)
       THEN UNCHANGED <<clickHandlers, currentDrawingMode, session>>
       ELSE /\ clickHandlers' = WithoutClick(clickHandlers, map)
            /\ currentDrawingMode' = "null"
            /\ session' = NoSession
    /\ lastCall' = Call("disableDrawingMode", FALSE, FALSE)
    /\ roundTrip' = NoRoundTrip
    /\ UNCHANGED <<wrapper, leafletVars, map, registryVars, exported, drawingLayer, clicks,
                   issued, baseVars, measurementLayer>>
    /\ UNCHANGED <<selVars, swVars, pwaVars>>

\* export function enableMeasurement(measurementType)
GisEnableMeasurement(type) ==
    /\ wrapper = "gis"
    /\ IF HandleAbsent(map)
       THEN UNCHANGED <<clickHandlers, measurementLayer>>
       ELSE /\ clickHandlers' = Append(WithoutClick(clickHandlers, map), Listener(map, type))
            /\ measurementLayer' =
                 IF measurementLayer.exists THEN [measurementLayer EXCEPT !.shapes = <<>>]
                 ELSE [exists |-> TRUE, on |-> Shown(map), shapes |-> <<>>]
    /\ lastCall' = Call("enableMeasurement", FALSE, FALSE)
    /\ roundTrip' = NoRoundTrip
    /\ UNCHANGED <<wrapper, leafletVars, map, registryVars, exported, currentDrawingMode,
                   drawingLayer, session, clicks, issued, baseVars>>
    /\ UNCHANGED <<selVars, swVars, pwaVars>>

\* export function disableMeasurement()
GisDisableMeasurement ==
    /\ wrapper = "gis"
    /\ IF HandleAbsent(map)
       THEN UNCHANGED <<clickHandlers, measurementLayer>>
       ELSE /\ clickHandlers' = WithoutClick(clickHandlers, map)
            /\ measurementLayer' = [measurementLayer EXCEPT !.shapes = <<>>]
    /\ lastCall' = Call("disableMeasurement", FALSE, FALSE)
    /\ roundTrip' = NoRoundTrip
    /\ UNCHANGED <<wrapper, leafletVars, map, registryVars, exported, currentDrawingMode,
                   drawingLayer, session, clicks, issued, baseVars>>
    /\ UNCHANGED <<selVars, swVars, pwaVars>>

\* the user clicks on the map the wrapper holds
GisMapClick ==
    /\ wrapper = "gis"
    /\ map # 0 /\ IsLive(map)
    /\ clicks < MaxClicks
    /\ clicks' = clicks + 1
    /\ clickHandlers' = Fire(clickHandlers, map, 1, <<>>).listeners
    /\ drawingLayer' =
         [drawingLayer EXCEPT !.shapes = @ \o Drawn(Fire(clickHandlers, map, 1, <<>>).added)]
    /\ measurementLayer' =
         [measurementLayer EXCEPT
            !.shapes = @ \o Measured(Fire(clickHandlers, map, 1, <<>>).added)]
    /\ session' =
         IF session.on = map
         THEN [session EXCEPT
                 !.clicks = @ + 1,
                 !.committed = @ \o Drawn(Fire(clickHandlers, map, 1, <<>>).added)]
         ELSE session
    /\ UNCHANGED <<wrapper, leafletVars, map, registryVars, lastCall, exported, roundTrip,
                   currentDrawingMode, issued, baseVars>>
    /\ UNCHANGED <<selVars, swVars, pwaVars>>

NextDraw ==
    \/ GisCreateMap("map")
    \/ \E mode \in DrawingModes : GisEnableDrawingMode(mode)
    \/ GisDisableDrawingMode
    \/ GisMapClick

\* the measurement types the host passes, and one the handler has no branch for
MeasurementTypes == {"distance", "area", "bearing"}

\* the drawing and the measurement tools on one map
NextTools ==
    \/ GisCreateMap("map")
    \/ \E mode \in ToolModes : GisEnableDrawingMode(mode)
    \/ GisDisableDrawingMode
    \/ \E type \in MeasurementTypes : GisEnableMeasurement(type)
    \/ GisDisableMeasurement
    \/ GisMapClick

-----------------------------------------------------------------------------
(* Drawing wrapper (src/js/leafletWrapper.js) *)

\* a layer group or feature group: the map it is on and its member layers
NoGroup == [exists |-> FALSE, on |-> 0, members |-> <<>>]
Group(m) == [exists |-> TRUE, on |-> m, members |-> <<>>]
WithMember(g, o) == [g EXCEPT !.members = Append(@, o)]
Members(g) == { g.members[i] : i \in 1 .. Len(g.members) }
\* map.remove() takes the group off the map with everything in it
GroupOffMap(g, m) == IF g.on = m THEN [g EXCEPT !.on = 0] ELSE g
\* group.clearLayers()
Cleared(g) == [g EXCEPT !.members = <<>>]

unusedByLw == <<layers, markers, polygons, parcels, chiefdomBoundaries>>

\* export function createMap(elementId, lat, lng, zoom)
LwCreateMap(el) ==
    /\ wrapper = "leafletWrapper"
    /\ LET release == CreateMapReleases(map)
           ms1 == IF release THEN MapRemoved(maps, map) ELSE maps
           ov1 == IF release THEN LayersRemoved(overlays, map) ELSE overlays
           lg1 == IF release THEN GroupOffMap(layerGroup, map) ELSE layerGroup
           di1 == IF release THEN GroupOffMap(drawnItems, map) ELSE drawnItems
       IN  IF release /\ ~IsLive(map)
           THEN Returns("createMap", TRUE, FALSE)
           ELSE /\ IF MapThrows(ms1, el)
                   THEN /\ maps' = ms1
                        /\ map' = map
                        /\ layerGroup' = lg1
                   ELSE /\ Len(maps) < MaxMaps
                        /\ maps' = MapCreated(ms1, el)
                        /\ map' = Len(maps) + 1
                        /\ layerGroup' = Group(Len(maps) + 1)
                /\ overlays' = ov1
                /\ drawnItems' = di1
                /\ lastCall' = Call("createMap", MapThrows(ms1, el), FALSE)
                /\ roundTrip' = NoRoundTrip
                /\ UNCHANGED <<wrapper, now, unusedByLw, drawControl, exported>>
    /\ UNCHANGED <<selVars, swVars, pwaVars, drawVars>>

LwShapeOps == {"addMarker", "addCircle", "addPolygon", "addPolyline"}
LwKind(op) == IF op = "addMarker" THEN "marker"
              ELSE IF op = "addCircle" THEN "circle"
              ELSE IF op = "addPolygon" THEN "polygon" ELSE "polyline"

\* export function addMarker / addCircle / addPolygon / addPolyline
LwAddShape(op) ==
    /\ wrapper = "leafletWrapper"
    /\ IF HandleAbsent(map)
       THEN Returns(op, FALSE, TRUE)          \* console.error('Map not initialized')
       ELSE /\ Len(overlays) < MaxOverlays
            /\ overlays' = Append(overlays,
                                  Overlay(LwKind(op), KindFeatures(LwKind(op)), layerGroup.on))
            /\ layerGroup' = WithMember(layerGroup, Len(overlays) + 1)
            /\ lastCall' = Call(op, FALSE, FALSE)
            /\ roundTrip' = NoRoundTrip
            /\ UNCHANGED <<wrapper, maps, now, map, unusedByLw, drawnItems, drawControl,
                           exported>>
    /\ UNCHANGED <<selVars, swVars, pwaVars, drawVars>>

LwGeoJsonOps == {"addGeoJson", "addGeoJsonWithPopup"}

\* export function addGeoJson / addGeoJsonWithPopup
LwAddGeoJson(op, g) ==
    /\ wrapper = "leafletWrapper"
    /\ IF HandleAbsent(map)
       THEN Returns(op, FALSE, TRUE)
       ELSE IF GeoJsonThrows(g)
       THEN Returns(op, TRUE, FALSE)
       ELSE /\ Len(overlays) < MaxOverlays
            /\ overlays' = Append(overlays,
                                  Overlay("geojson", GeoJsonChildren(g), layerGroup.on))
            /\ layerGroup' = WithMember(layerGroup, Len(overlays) + 1)
            /\ lastCall' = Call(op, FALSE, FALSE)
            /\ roundTrip' = NoRoundTrip
            /\ UNCHANGED <<wrapper, maps, now, map, unusedByLw, drawnItems, drawControl,
                           exported>>
    /\ UNCHANGED <<selVars, swVars, pwaVars, drawVars>>

LwDrawOps == {"initDrawTools", "initDrawToolsAdvanced"}

\* export function initDrawTools / initDrawToolsAdvanced
LwInitDrawTools(op) ==
    /\ wrapper = "leafletWrapper"
    /\ IF HandleAbsent(map)
       THEN Returns(op, FALSE, TRUE)
       ELSE /\ drawnItems' = IF drawnItems.exists THEN drawnItems
                             ELSE Group(IF IsLive(map) THEN map ELSE 0)
            /\ drawControl' = map
            \* map.addControl(drawControl) throws on a map that was removed
            /\ lastCall' = Call(op, ~IsLive(map), FALSE)
            /\ roundTrip' = NoRoundTrip
            /\ UNCHANGED <<wrapper, leafletVars, map, unusedByLw, layerGroup, exported>>
    /\ UNCHANGED <<selVars, swVars, pwaVars, drawVars>>

\* map.on(L.Draw.Event.CREATED, ...): the user finishes a shape on the map
LwDrawCreated(kind) ==
    /\ wrapper = "leafletWrapper"
    /\ IsLive(map) /\ drawControl = map
    /\ Len(overlays) < MaxOverlays
    /\ overlays' = Append(overlays, Overlay(kind, KindFeatures(kind), drawnItems.on))
    /\ drawnItems' = WithMember(drawnItems, Len(overlays) + 1)
    /\ lastCall' = Call("draw:created", FALSE, FALSE)
    /\ roundTrip' = NoRoundTrip
    /\ UNCHANGED <<wrapper, maps, now, map, unusedByLw, layerGroup, drawControl, exported>>
    /\ UNCHANGED <<selVars, swVars, pwaVars, drawVars>>

\* export function clearAllDrawn()
LwClearAllDrawn ==
    /\ wrapper = "leafletWrapper"
    /\ overlays' = Detached(overlays, Members(drawnItems), drawnItems.on)
    /\ drawnItems' = Cleared(drawnItems)
    /\ lastCall' = Call("clearAllDrawn", FALSE, FALSE)
    /\ roundTrip' = NoRoundTrip
    /\ UNCHANGED <<wrapper, maps, now, map, unusedByLw, layerGroup, drawControl, exported>>
    /\ UNCHANGED <<selVars, swVars, pwaVars, drawVars>>

\* getDrawnGeoJson:  if (!drawnItems) return null;
\*                   return JSON.stringify(drawnItems.toGeoJSON());
DrawnGeoJson(ovs, g) ==
    IF ~g.exists THEN NullValue ELSE Stringify(FC(Flatten(ovs, g.members)))

\* export function getDrawnGeoJson()
LwGetDrawnGeoJson ==
    /\ wrapper = "leafletWrapper"
    /\ exported' = DrawnGeoJson(overlays, drawnItems)
    /\ lastCall' = Call("getDrawnGeoJson", FALSE, FALSE)
    /\ roundTrip' = RoundTripAfter("getDrawnGeoJson", NullValue,
                                   DrawnGeoJson(overlays, drawnItems))
    /\ UNCHANGED <<wrapper, leafletVars, map, registryVars, selVars, swVars, pwaVars, drawVars>>

\* the layer L.geoJSON builds for one feature
ChildKind(f) == IF f = "Point" THEN "marker"
                ELSE IF f = "LineString" THEN "polyline" ELSE "polygon"

\* geoJsonLayer.eachLayer(layer => drawnItems.addLayer(layer))
ChildOverlays(fs, m) == [i \in 1 .. Len(fs) |-> Overlay(ChildKind(fs[i]), <<fs[i]>>, m)]
WithMembers(g, first, n) ==
    [g EXCEPT !.members = @ \o [i \in 1 .. n |-> first + i]]

\* export function addDrawnFromGeoJson(geoJsonData)
LwAddDrawnFromGeoJson(data) ==
    /\ wrapper = "leafletWrapper"
    /\ IF HandleAbsent(map) \/ ~drawnItems.exists
       THEN \* console.error('Map or drawn items not initialized')
            /\ lastCall' = Call("addDrawnFromGeoJson", FALSE, TRUE)
            /\ UNCHANGED <<wrapper, leafletVars, map, registryVars, exported>>
       ELSE IF GeoJsonThrows(data)
       THEN /\ lastCall' = Call("addDrawnFromGeoJson", TRUE, FALSE)
            /\ UNCHANGED <<wrapper, leafletVars, map, registryVars, exported>>
       ELSE /\ Len(overlays) + Len(GeoJsonChildren(data)) <= MaxOverlays
            /\ overlays' = overlays \o ChildOverlays(GeoJsonChildren(data), drawnItems.on)
            /\ drawnItems' = WithMembers(drawnItems, Len(overlays),
                                         Len(GeoJsonChildren(data)))
            /\ lastCall' = Call("addDrawnFromGeoJson", FALSE, FALSE)
            /\ UNCHANGED <<wrapper, maps, now, map, unusedByLw, layerGroup, drawControl,
                           exported>>
    /\ roundTrip' = RoundTripAfter("addDrawnFromGeoJson", data, NullValue)
    /\ UNCHANGED <<selVars, swVars, pwaVars, drawVars>>

\* export function clearMap()
LwClearMap ==
    /\ wrapper = "leafletWrapper"
    /\ overlays' = Detached(Detached(overlays, Members(layerGroup), layerGroup.on),
                            Members(drawnItems), drawnItems.on)
    /\ layerGroup' = Cleared(layerGroup)
    /\ drawnItems' = Cleared(drawnItems)
    /\ lastCall' = Call("clearMap", FALSE, FALSE)
    /\ roundTrip' = RoundTripAfter("clearMap", NullValue, NullValue)
    /\ UNCHANGED <<wrapper, maps, now, map, unusedByLw, drawControl, exported>>
    /\ UNCHANGED <<selVars, swVars, pwaVars, drawVars>>

DrawnKinds == {"polygon", "marker"}

NextLw ==
    \/ \E el \in Elements : LwCreateMap(el)
    \/ \E op \in LwShapeOps : LwAddShape(op)
    \/ \E op \in LwGeoJsonOps : \E g \in GeoJsonInputs : LwAddGeoJson(op, g)
    \/ \E op \in LwDrawOps : LwInitDrawTools(op)
    \/ \E kind \in DrawnKinds : LwDrawCreated(kind)
    \/ LwClearAllDrawn
    \/ LwGetDrawnGeoJson
    \/ \E data \in GeoJsonInputs \cup {exported} : LwAddDrawnFromGeoJson(data)
    \/ LwClearMap

-----------------------------------------------------------------------------
(* Customary-land wrapper                                                  *)
(* (src/_content/CompanyApp.Component.Council.Activity/leafletMap.js)      *)

unusedByLand == <<layers, polygons, layerGroup, drawnItems, drawControl>>

\* export function initializeMap(elementId, latitude, longitude, zoom)
LandInitializeMap(el) ==
    /\ wrapper = "land"
    /\ IF MapThrows(maps, el)
       THEN \* catch (error) { console.error('Error initializing map:', error); }
            Returns("initializeMap", FALSE, TRUE)
       ELSE /\ Len(maps) < MaxMaps
            /\ maps' = MapCreated(maps, el)
            /\ map' = Len(maps) + 1
            /\ lastCall' = Call("initializeMap", FALSE, FALSE)
            /\ roundTrip' = NoRoundTrip
            /\ UNCHANGED <<wrapper, overlays, now, registryVars, exported>>
    /\ UNCHANGED <<selVars, swVars, pwaVars, drawVars>>

LandOps == {"addMarker", "addParcel", "addChiefdomBoundary"}

\* export function addMarker / addParcel / addChiefdomBoundary
LandAdd(op) ==
    /\ wrapper = "land"
    /\ IF HandleAbsent(map)
       THEN Returns(op, FALSE, FALSE)           \* if (!map) return null;
       ELSE /\ Len(overlays) < MaxOverlays
            /\ overlays' = Append(overlays,
                   IF op = "addMarker" THEN Overlay("marker", <<"Point">>, map)
                   ELSE Overlay("polygon", <<"Polygon">>, map))
            /\ markers' = IF op = "addMarker"
                          THEN Append(markers, Len(overlays) + 1) ELSE markers
            /\ parcels' = IF op = "addParcel"
                          THEN Append(parcels, Len(overlays) + 1) ELSE parcels
            /\ chiefdomBoundaries' = IF op = "addChiefdomBoundary"
                                     THEN Append(chiefdomBoundaries, Len(overlays) + 1)
                                     ELSE chiefdomBoundaries
            /\ lastCall' = Call(op, FALSE, FALSE)
            /\ roundTrip' = NoRoundTrip
            /\ UNCHANGED <<wrapper, maps, now, map, unusedByLand, exported>>
    /\ UNCHANGED <<selVars, swVars, pwaVars, drawVars>>

Range(seq) == { seq[i] : i \in 1 .. Len(seq) }
LandRegistered == Range(markers) \cup Range(parcels) \cup Range(chiefdomBoundaries)

\* export function clearAll(): clearMarkers(); clearParcels(); clearChiefdomBoundaries();
LandClearAll ==
    /\ wrapper = "land"
    /\ IF HandleAbsent(map) /\ LandRegistered # {}
       THEN Returns("clearAll", TRUE, FALSE)  \* map.removeLayer on a null handle
       ELSE /\ overlays' = Detached(overlays, LandRegistered, map)
            /\ markers' = <<>>
            /\ parcels' = <<>>
            /\ chiefdomBoundaries' = <<>>
            /\ lastCall' = Call("clearAll", FALSE, FALSE)
            /\ roundTrip' = NoRoundTrip
            /\ UNCHANGED <<wrapper, maps, now, map, unusedByLand, exported>>
    /\ UNCHANGED <<selVars, swVars, pwaVars, drawVars>>

\* export function disposeMap()
LandDisposeMap ==
    /\ wrapper = "land"
    /\ IF HandleAbsent(map)
       THEN Returns("disposeMap", FALSE, FALSE)
       ELSE /\ maps' = MapRemoved(maps, map)
            /\ overlays' = LayersRemoved(Detached(overlays, LandRegistered, map), map)
            /\ map' = 0
            /\ markers' = <<>>
            /\ parcels' = <<>>
            /\ chiefdomBoundaries' = <<>>
            /\ lastCall' = Call("disposeMap", FALSE, FALSE)
            /\ roundTrip' = NoRoundTrip
            /\ UNCHANGED <<wrapper, now, unusedByLand, exported>>
    /\ UNCHANGED <<selVars, swVars, pwaVars, drawVars>>

NextLand ==
    \/ \E el \in Elements : LandInitializeMap(el)
    \/ \E op \in LandOps : LandAdd(op)
    \/ LandClearAll
    \/ LandDisposeMap

-----------------------------------------------------------------------------
(* Spatial-dashboard wrapper (src/unnamed/part_001); `map` is spatialMap *)

unusedByDash == <<layers, parcels, chiefdomBoundaries, layerGroup, drawnItems, drawControl>>

\* window.initializeLeafletMap = function (mapId, centerLat, centerLng, zoom)
DashInitializeLeafletMap(el) ==
    /\ wrapper = "dashboard"
    /\ LET release == CreateMapReleases(map)
           ms1 == IF release THEN MapRemoved(maps, map) ELSE maps
           ov1 == IF release THEN LayersRemoved(overlays, map) ELSE overlays
       IN  IF release /\ ~IsLive(map)
           THEN \* spatialMap.remove() throws: caught and logged
                Returns("initializeLeafletMap", FALSE, TRUE)
           ELSE /\ IF MapThrows(ms1, el)
                   THEN /\ maps' = ms1
                        /\ map' = map
                   ELSE /\ Len(maps) < MaxMaps
                        /\ maps' = MapCreated(ms1, el)
                        /\ map' = Len(maps) + 1
                /\ overlays' = ov1
                /\ markers' = IF release THEN <<>> ELSE markers
                /\ polygons' = IF release THEN <<>> ELSE polygons
                /\ lastCall' = Call("initializeLeafletMap", FALSE, MapThrows(ms1, el))
                /\ roundTrip' = NoRoundTrip
                /\ UNCHANGED <<wrapper, now, unusedByDash, exported>>
    /\ UNCHANGED <<selVars, swVars, pwaVars, drawVars>>

DashOps == {"addLeafletMarker", "addLeafletPolygon", "addLeafletCircle"}
DashKind(op) == IF op = "addLeafletMarker" THEN "marker"
                ELSE IF op = "addLeafletPolygon" THEN "polygon" ELSE "circle"

\* window.addLeafletMarker / addLeafletPolygon / addLeafletCircle
DashAddUpTo(op, bound) ==
    /\ wrapper = "dashboard"
    /\ IF HandleAbsent(map)
       THEN Returns(op, FALSE, TRUE)          \* console.error('Map not initialized')
       ELSE IF AddToThrows(map, KindFeatures(DashKind(op)))
       THEN Returns(op, FALSE, TRUE)          \* addTo throws: caught and logged
       ELSE /\ Len(overlays) < bound
            /\ overlays' = Append(overlays, Overlay(DashKind(op), KindFeatures(DashKind(op)), map))
            /\ markers' = IF op = "addLeafletMarker"
                          THEN Append(markers, Len(overlays) + 1) ELSE markers
            /\ polygons' = IF op = "addLeafletPolygon"
                           THEN Append(polygons, Len(overlays) + 1) ELSE polygons
            /\ lastCall' = Call(op, FALSE, FALSE)
            /\ roundTrip' = NoRoundTrip
            /\ UNCHANGED <<wrapper, maps, now, map, unusedByDash, exported>>
    /\ UNCHANGED <<selVars, swVars, pwaVars, drawVars>>

DashAdd(op) == DashAddUpTo(op, MaxOverlays)

\* window.addLeafletHeatmap = function (points, options = {}); `loaded`
\* tells whether the Leaflet.heat plugin has defined L.heatLayer
DashAddLeafletHeatmap(loaded) ==
    /\ wrapper = "dashboard"
    /\ IF HandleAbsent(map)
       THEN Returns("addLeafletHeatmap", FALSE, TRUE)   \* console.error('Map not initialized')
       ELSE IF ~loaded
       THEN Returns("addLeafletHeatmap", FALSE, FALSE)  \* console.warn, return false
       ELSE IF AddToThrows(map, KindFeatures("heat"))
       THEN Returns("addLeafletHeatmap", FALSE, TRUE)   \* addTo throws: caught and logged
       ELSE /\ Len(overlays) < MaxRegistered
            /\ overlays' = Append(overlays, Overlay("heat", KindFeatures("heat"), map))
            /\ lastCall' = Call("addLeafletHeatmap", FALSE, FALSE)
            /\ roundTrip' = NoRoundTrip
            /\ UNCHANGED <<wrapper, maps, now, map, markers, polygons, unusedByDash,
                           exported>>
    /\ UNCHANGED <<selVars, swVars, pwaVars, drawVars>>

\* window.clearLeafletMarkers = function ()
DashClearLeafletMarkers ==
    /\ wrapper = "dashboard"
    /\ IF HandleAbsent(map) /\ markers # <<>>
       THEN Returns("clearLeafletMarkers", FALSE, TRUE)
       ELSE /\ overlays' = Detached(overlays, Range(markers), map)
            /\ markers' = <<>>
            /\ lastCall' = Call("clearLeafletMarkers", FALSE, FALSE)
            /\ roundTrip' = NoRoundTrip
            /\ UNCHANGED <<wrapper, maps, now, map, polygons, unusedByDash, exported>>
    /\ UNCHANGED <<selVars, swVars, pwaVars, drawVars>>

\* window.clearLeafletPolygons = function ()
DashClearLeafletPolygons ==
    /\ wrapper = "dashboard"
    /\ IF HandleAbsent(map) /\ polygons # <<>>
       THEN Returns("clearLeafletPolygons", FALSE, TRUE)
       ELSE /\ overlays' = Detached(overlays, Range(polygons), map)
            /\ polygons' = <<>>
            /\ lastCall' = Call("clearLeafletPolygons", FALSE, FALSE)
            /\ roundTrip' = NoRoundTrip
            /\ UNCHANGED <<wrapper, maps, now, map, markers, unusedByDash, exported>>
    /\ UNCHANGED <<selVars, swVars, pwaVars, drawVars>>

\* window.destroyLeafletMap = function ()
DashDestroyLeafletMap ==
    /\ wrapper = "dashboard"
    /\ IF HandleAbsent(map)
       THEN Returns("destroyLeafletMap", FALSE, FALSE)
       ELSE IF ~IsLive(map)
       THEN Returns("destroyLeafletMap", FALSE, TRUE)   \* remove() throws: caught
       ELSE /\ maps' = MapRemoved(maps, map)
            /\ overlays' = LayersRemoved(overlays, map)
            /\ map' = 0
            /\ markers' = <<>>
            /\ polygons' = <<>>
            /\ lastCall' = Call("destroyLeafletMap", FALSE, FALSE)
            /\ roundTrip' = NoRoundTrip
            /\ UNCHANGED <<wrapper, now, unusedByDash, exported>>
    /\ UNCHANGED <<selVars, swVars, pwaVars, drawVars>>

NextDash ==
    \/ \E el \in Elements : DashInitializeLeafletMap(el)
    \/ \E op \in DashOps : DashAdd(op)
    \/ DashClearLeafletMarkers
    \/ DashClearLeafletPolygons
    \/ DashDestroyLeafletMap

-----------------------------------------------------------------------------
(* pwa-helper.js: the page-side helper.  The script runs once when it is    *)
(* loaded, initializePWA runs in the window's load event, and everything     *)
(* else is a listener or a function of the command API.  The functions of    *)
(* the command API are applied to the helper's state as they are written;    *)
(* apiExposed records whether the page has assigned them to window.PWA.      *)

MaxPrompts == 2   \* beforeinstallprompt events the browser dispatches

NoRegistration == "null"
SwRegistration == "ServiceWorkerRegistration"

InstallPromptListeners == {"beforeinstallprompt", "appinstalled"}
ConnectionListeners == {"online", "offline"}

Permissions == {"unsupported", "default", "granted", "denied"}

\* `'sync' in registration`: the in operator throws a TypeError when its
\* right-hand side is not an object
SetupBackgroundSyncThrows(reg) == reg = NoRegistration

NoInstallCall == [pc |-> "idle", event |-> 0, held |-> FALSE, result |-> "none"]
NoPushCall ==
    [pc |-> "idle", key |-> <<>>, hadRegistration |-> FALSE, permission |-> "none",
     prompted |-> FALSE, called |-> FALSE, outcome |-> "none"]

\* `inFlight` records the fetch handlers whose fetch was under way, or over,
\* when clearCache was called
NoClearCall ==
    [pc |-> "idle", posted |-> FALSE, listed |-> {}, epochs |-> <<>>, left |-> {},
     inFlight |-> {}]

\* the script body: the early return without service-worker support, the
\* `let` declarations and the load listener
HelperLoaded(supported) ==
    /\ page = (IF supported THEN "waiting" ELSE "unsupported")
    /\ listeners = (IF supported THEN {"load"} ELSE {})
    /\ registration = NoRegistration /\ registerPc = "idle"
    /\ apiExposed = FALSE
    /\ promptEvents = <<>> /\ deferredInstallPrompt = 0 /\ isInstalled = FALSE
    /\ installCall = NoInstallCall /\ pushCall = NoPushCall
    /\ subscription = FALSE /\ banner = FALSE /\ bannerClick = 0
    /\ clearCall = NoClearCall

\* past the early return of the script body
HelperRuns == page # "unsupported"

InitPwa == permission \in Permissions /\ \E supported \in BOOLEAN : HelperLoaded(supported)
IdlePwa == permission = "default" /\ HelperLoaded(FALSE)

\* window load: initializePWA().  registerServiceWorker() runs up to its
\* await and returns, so `registration` still has the value it had before;
\* the steps after a throwing step do not run.
LoadEvent ==
    /\ page = "waiting"
    /\ registerPc' = "awaiting"
    /\ \E standalone \in BOOLEAN : isInstalled' = (isInstalled \/ standalone)
    /\ IF SetupBackgroundSyncThrows(registration)
         THEN /\ page' = "crashed"
              /\ listeners' = listeners \cup InstallPromptListeners
              /\ UNCHANGED apiExposed
         ELSE /\ page' = "initialized"
              /\ listeners' = listeners \cup InstallPromptListeners \cup ConnectionListeners
              /\ apiExposed' = TRUE
    /\ UNCHANGED <<registration, promptEvents, deferredInstallPrompt, installCall,
                   permission, pushCall, subscription, banner, bannerClick>>
    /\ UNCHANGED <<selVars, swVars, mapVars, hostVars>>

\* navigator.serviceWorker.register(...) settles and registerServiceWorker resumes
RegisterSettles ==
    /\ registerPc = "awaiting"
    /\ \E ok \in BOOLEAN :
         IF ok THEN registration' = SwRegistration /\ registerPc' = "registered"
               ELSE UNCHANGED registration /\ registerPc' = "failed"
    /\ UNCHANGED <<page, listeners, apiExposed, promptEvents, deferredInstallPrompt,
                   isInstalled, installCall, permission, pushCall, subscription, banner,
                   bannerClick>>
    /\ UNCHANGED <<selVars, swVars, mapVars, hostVars>>

\* a BeforeInstallPromptEvent: prompt() may be called on it, userChoice
\* settles with the user's answer
\* `calls` counts the prompt() calls made on the event
NewPromptEvent == [prompted |-> FALSE, choice |-> "pending", calls |-> 0]
Prompted(events, e) == [events EXCEPT ![e].prompted = TRUE, ![e].calls = @ + 1]
Choices == {"accepted", "dismissed"}

\* the beforeinstallprompt listener (setupInstallPrompt) and showInstallPrompt
BeforeInstallPrompt ==
    /\ "beforeinstallprompt" \in listeners
    /\ Len(promptEvents) < MaxPrompts
    /\ promptEvents' = Append(promptEvents, NewPromptEvent)
    /\ deferredInstallPrompt' = Len(promptEvents) + 1
    /\ banner' = TRUE
    /\ UNCHANGED <<page, listeners, registration, registerPc, apiExposed, isInstalled,
                   installCall, permission, pushCall, subscription, bannerClick>>
    /\ UNCHANGED <<selVars, swVars, mapVars, hostVars>>

\* the user answers the browser's install dialog of a prompted event
UserChoice ==
    /\ \E e \in 1 .. Len(promptEvents), c \in Choices :
         /\ promptEvents[e].prompted /\ promptEvents[e].choice = "pending"
         /\ promptEvents' = [promptEvents EXCEPT ![e].choice = c]
    /\ UNCHANGED <<page, listeners, registration, registerPc, apiExposed,
                   deferredInstallPrompt, isInstalled, installCall, permission, pushCall,
                   subscription, banner, bannerClick>>
    /\ UNCHANGED <<selVars, swVars, mapVars, hostVars>>

\* the appinstalled listener (setupInstallPrompt)
AppInstalled ==
    /\ "appinstalled" \in listeners
    /\ ~isInstalled
    /\ \E e \in 1 .. Len(promptEvents) : promptEvents[e].choice = "accepted"
    /\ isInstalled' = TRUE
    /\ deferredInstallPrompt' = 0
    /\ banner' = FALSE
    /\ UNCHANGED <<page, listeners, registration, registerPc, apiExposed, promptEvents,
                   installCall, permission, pushCall, subscription, bannerClick>>
    /\ UNCHANGED <<selVars, swVars, mapVars, hostVars>>

\* click on the banner's install button, up to its await
BannerInstallClick ==
    /\ banner /\ bannerClick = 0
    /\ IF deferredInstallPrompt # 0
         THEN /\ promptEvents' = Prompted(promptEvents, deferredInstallPrompt)
              /\ bannerClick' = deferredInstallPrompt
              /\ UNCHANGED banner
         ELSE /\ banner' = FALSE
              /\ UNCHANGED <<promptEvents, bannerClick>>
    /\ UNCHANGED <<page, listeners, registration, registerPc, apiExposed,
                   deferredInstallPrompt, isInstalled, installCall, permission, pushCall,
                   subscription>>
    /\ UNCHANGED <<selVars, swVars, mapVars, hostVars>>

\* the banner's install handler resumes once userChoice has settled
BannerInstallResume ==
    /\ bannerClick # 0
    /\ promptEvents[bannerClick].choice # "pending"
    /\ deferredInstallPrompt' = 0
    /\ banner' = FALSE
    /\ bannerClick' = 0
    /\ UNCHANGED <<page, listeners, registration, registerPc, apiExposed, promptEvents,
                   isInstalled, installCall, permission, pushCall, subscription>>
    /\ UNCHANGED <<selVars, swVars, mapVars, hostVars>>

\* the install function of the command API (exposePWAApi), up to its await
\* or its return
InstallCall ==
    /\ HelperRuns
    /\ installCall.pc # "awaiting"
    /\ IF deferredInstallPrompt # 0
         THEN /\ promptEvents' = Prompted(promptEvents, deferredInstallPrompt)
              /\ installCall' = [pc |-> "awaiting", event |-> deferredInstallPrompt,
                                 held |-> TRUE, result |-> "none"]
         ELSE /\ installCall' = [pc |-> "done", event |-> 0, held |-> FALSE,
                                 result |-> "false"]
              /\ UNCHANGED promptEvents
    /\ UNCHANGED <<page, listeners, registration, registerPc, apiExposed,
                   deferredInstallPrompt, isInstalled, permission, pushCall, subscription,
                   banner, bannerClick>>
    /\ UNCHANGED <<selVars, swVars, mapVars, hostVars>>

\* an install function that reports every settled choice as accepted
Accepted_AnyChoice(choice) == "true"

\* outcome === 'accepted'
Accepted(choice) == IF choice = "accepted" THEN "true" ELSE "false"

\* the install function resumes once userChoice has settled
InstallResume ==
    /\ installCall.pc = "awaiting"
    /\ promptEvents[installCall.event].choice # "pending"
    /\ deferredInstallPrompt' = 0
    /\ installCall' = [installCall EXCEPT
                          !.pc = "done",
                          !.result = Accepted(promptEvents[installCall.event].choice)]
    /\ UNCHANGED <<page, listeners, registration, registerPc, apiExposed, promptEvents,
                   isInstalled, permission, pushCall, subscription, banner, bannerClick>>
    /\ UNCHANGED <<selVars, swVars, mapVars, hostVars>>

\* urlBase64ToUint8Array: pads the key to a multiple of four, maps the
\* url-safe characters to the standard ones and hands the text to atob,
\* which throws on a character outside the alphabet and on a single
\* leftover character
Base64UrlChars == {"A", "-", "_"}
VapidKeys == {<<"A", "_">>, <<"A">>, <<"!", "A">>}
Padding(key) == (4 - (Len(key) % 4)) % 4
AtobThrows(key) ==
    \/ \E i \in 1 .. Len(key) : key[i] \notin Base64UrlChars
    \/ Padding(key) = 3

\* a subscribe function that does not look at the permission
AfterPermission_Unchecked(call, p) ==
    IF ~AtobThrows(call.key)
      THEN [call EXCEPT !.pc = "subscribing", !.permission = p, !.called = TRUE]
      ELSE [call EXCEPT !.pc = "done", !.permission = p, !.outcome = "rejected"]

\* subscribeToPushNotifications after `await requestNotificationPermission()`
\* returned p: the permission check, the key conversion and the call of
\* registration.pushManager.subscribe
AfterPermission(call, p) ==
    IF p = "granted" /\ ~AtobThrows(call.key)
      THEN [call EXCEPT !.pc = "subscribing", !.permission = p, !.called = TRUE]
      ELSE [call EXCEPT !.pc = "done", !.permission = p, !.outcome = "rejected"]

\* subscribeToPushNotifications(key), the subscribeToPush function of the
\* command API, up to the permission dialog, the subscribe call or its rejection
SubscribeCall ==
    /\ HelperRuns
    /\ pushCall.pc \in {"idle", "done"}
    /\ \E key \in VapidKeys :
         LET call == [NoPushCall EXCEPT !.key = key,
                                        !.hadRegistration = registration # NoRegistration]
         IN pushCall' =
              IF registration = NoRegistration
                THEN [call EXCEPT !.pc = "done", !.outcome = "rejected"]
              ELSE IF permission = "default"
                THEN [call EXCEPT !.pc = "asking", !.prompted = TRUE]
              ELSE AfterPermission(call, permission)
    /\ UNCHANGED <<page, listeners, registration, registerPc, apiExposed, promptEvents,
                   deferredInstallPrompt, isInstalled, installCall, permission,
                   subscription, banner, bannerClick>>
    /\ UNCHANGED <<selVars, swVars, mapVars, hostVars>>

\* the user answers Notification.requestPermission()
PermissionAnswer ==
    /\ pushCall.pc = "asking"
    /\ \E p \in {"default", "granted", "denied"} :
         /\ permission' = p
         /\ pushCall' = AfterPermission(pushCall, p)
    /\ UNCHANGED <<page, listeners, registration, registerPc, apiExposed, promptEvents,
                   deferredInstallPrompt, isInstalled, installCall, subscription, banner,
                   bannerClick>>
    /\ UNCHANGED <<selVars, swVars, mapVars, hostVars>>

\* registration.pushManager.subscribe(...) settles
SubscribeSettles ==
    /\ pushCall.pc = "subscribing"
    /\ \E ok \in BOOLEAN :
         IF ok THEN /\ subscription' = TRUE
                    /\ pushCall' = [pushCall EXCEPT !.pc = "done", !.outcome = "resolved"]
               ELSE /\ UNCHANGED subscription
                    /\ pushCall' = [pushCall EXCEPT !.pc = "done", !.outcome = "rejected"]
    /\ UNCHANGED <<page, listeners, registration, registerPc, apiExposed, promptEvents,
                   deferredInstallPrompt, isInstalled, installCall, permission, banner,
                   bannerClick>>
    /\ UNCHANGED <<selVars, swVars, mapVars, hostVars>>

\* registration && registration.active: the page holds the registration and
\* the worker it registered has reached the activating state
ActiveWorker(reg, state) == reg # NoRegistration /\ state \in {"activating", "activated"}

\* a clearCache that deletes what the activate handler would delete
ToDelete_StaleOnly(names) == StaleNames(NameSet(names))

\* cacheNames.map(name => caches.delete(name)): one delete per listed name
ToDelete(names) == NameSet(names)

\* PWA.clearCache(), up to its first await: the post to the active worker
PwaClearCache ==
    /\ HelperRuns
    /\ clearCall.pc = "idle"
    /\ clearCall' = [clearCall EXCEPT !.pc = "keys",
                                      !.posted = ActiveWorker(registration, swState),
                                      !.inFlight = { h \in Handlers : FetchStarted(h) }]
    /\ UNCHANGED <<page, listeners, registration, registerPc, apiExposed, promptEvents,
                   deferredInstallPrompt, isInstalled, installCall, permission, pushCall,
                   subscription, banner, bannerClick>>
    /\ UNCHANGED <<selVars, swVars, mapVars>>

\* the worker receives the message clearCache posted
PostedMessage ==
    /\ clearCall.posted
    /\ MessageEvent("CLEAR_CACHE", {})

\* const cacheNames = await caches.keys(); Promise.all of no promise resolves
PwaClearCacheKeys ==
    /\ clearCall.pc = "keys"
    /\ clearCall' = [clearCall EXCEPT
                       !.pc = IF ToDelete(cacheNames) = {} THEN "resolved" ELSE "delete",
                       !.listed = NameSet(cacheNames),
                       !.epochs = cacheEpoch,
                       !.left = ToDelete(cacheNames)]
    /\ UNCHANGED <<page, listeners, registration, registerPc, apiExposed, promptEvents,
                   deferredInstallPrompt, isInstalled, installCall, permission, pushCall,
                   subscription, banner, bannerClick>>
    /\ UNCHANGED <<selVars, swVars, mapVars>>

\* one caches.delete(name) of the Promise.all completes; after the last one
\* the promise of clearCache resolves
PwaClearCacheDelete(n) ==
    /\ clearCall.pc = "delete"
    /\ n \in clearCall.left
    /\ DeleteCache(n)
    /\ clearCall' = [clearCall EXCEPT !.left = @ \ {n},
                                      !.pc = IF clearCall.left = {n} THEN "resolved" ELSE @]
    /\ UNCHANGED <<page, listeners, registration, registerPc, apiExposed, promptEvents,
                   deferredInstallPrompt, isInstalled, installCall, permission, pushCall,
                   subscription, banner, bannerClick>>
    /\ UNCHANGED <<lifecycleVars, handlers, skipWaitingFlag, msg, msgCount, sync>>
    /\ UNCHANGED <<selVars, mapVars, notifyVars>>

NextPwa ==
    \/ LoadEvent
    \/ RegisterSettles
    \/ BeforeInstallPrompt
    \/ UserChoice
    \/ AppInstalled
    \/ BannerInstallClick
    \/ BannerInstallResume
    \/ InstallCall
    \/ InstallResume
    \/ SubscribeCall
    \/ PermissionAnswer
    \/ SubscribeSettles

-----------------------------------------------------------------------------
(* The page: one wrapper module is loaded and the host calls into it *)

Wrappers == {"gis", "leafletWrapper", "land", "dashboard"}

\* the module-level `let` declarations of each wrapper
InitWrapperState ==
    /\ maps = <<>> /\ overlays = <<>> /\ now = 0
    /\ map = 0
    /\ layers = <<>> /\ markers = <<>> /\ polygons = <<>>
    /\ parcels = <<>> /\ chiefdomBoundaries = <<>>
    /\ layerGroup = NoGroup /\ drawnItems = NoGroup /\ drawControl = 0
    /\ lastCall = NoCall /\ exported = NullValue /\ roundTrip = NoRoundTrip
    /\ clickHandlers = <<>> /\ currentDrawingMode = "null"
    /\ drawingLayer = NoDrawingLayer /\ measurementLayer = NoDrawingLayer
    /\ session = NoSession /\ clicks = 0
    /\ tileLayers = <<>> /\ currentBaseLayer = 0
    /\ issued = <<>>

InitMaps == wrapper \in Wrappers /\ InitWrapperState
IdleMaps == wrapper = "none" /\ InitWrapperState

NextMaps == NextGis \/ NextLw \/ NextLand \/ NextDash \/ Tick

\* each specification exercises one part and leaves the others as loaded
SelectorStart == InitSelector /\ IdleSW /\ IdleMaps /\ IdlePwa
WorkerStart == IdleSelector /\ InitSW /\ IdleMaps /\ IdlePwa
PageStart == IdleSelector /\ IdleSW /\ InitMaps /\ IdlePwa
HelperStart == IdleSelector /\ IdleSW /\ IdleMaps /\ InitPwa

SpecSelector == SelectorStart /\ [][NextSelector]_vars
SpecSW == WorkerStart /\ [][NextSW]_vars
SpecMaps == PageStart /\ [][NextMaps]_vars
SpecSync == WorkerStart /\ [][NextSync]_vars
SpecExecutors == WorkerStart /\ [][NextExecutors]_vars
SpecPwa == HelperStart /\ [][NextPwa]_vars

\* the GIS wrapper with its drawing modes and the user's clicks
GisStart == IdleSelector /\ IdleSW /\ wrapper = "gis" /\ InitWrapperState /\ IdlePwa
SpecBase == GisStart /\ [][NextBase]_vars
SpecDraw == GisStart /\ [][NextDraw]_vars

\* the registries of the GIS wrapper and of the dashboard wrapper under their
\* add and clear operations
RegistryAddShape(op) == GisAddShapeUpTo(op, MaxRegistered) /\ UNCHANGED issued
RegistryAddGeoJson(g) == GisAddGeoJsonUpTo(g, MaxRegistered) /\ UNCHANGED issued
RegistryAddLayer(id, data) == GisAddLayerUpTo(id, data, MaxRegistered)
RegistryDashAdd(op) == DashAddUpTo(op, MaxRegistered)

NextRegistry ==
    \/ GisCreateMap("map")
    \/ \E op \in GisShapeOps : RegistryAddShape(op)
    \/ \E g \in GeoJsonObjects : RegistryAddGeoJson(g)
    \/ \E id \in LayerIds : \E g \in GeoJsonObjects : RegistryAddLayer(id, Stringify(g))
    \/ GisClearMap
    \/ Tick
    \/ DashInitializeLeafletMap("map")
    \/ \E op \in DashOps : RegistryDashAdd(op)
    \/ \E loaded \in BOOLEAN : DashAddLeafletHeatmap(loaded)
    \/ DashClearLeafletMarkers
    \/ DashClearLeafletPolygons

RegistryStart ==
    IdleSelector /\ IdleSW /\ wrapper \in {"gis", "dashboard"} /\ InitWrapperState /\ IdlePwa
SpecRegistry == RegistryStart /\ [][NextRegistry]_vars
SpecTools == GisStart /\ [][NextTools]_vars
SpecIds == GisStart /\ [][NextIds]_vars

\* executor calls for one URL that overlap
NextOverlap ==
    \/ InstallEvent
    \/ InstallOpen
    \/ \E ok \in BOOLEAN : InstallAddAll(ok)
    \/ InstallSkipWaiting
    \/ ActivateEvent
    \/ ActivateKeys
    \/ \E n \in AllCacheNames : ActivateDelete(n)
    \/ ActivateClaim
    \/ \E h \in Overlapping : \E s \in Executors : ExecutorCall(h, ScriptRequest, s)
    \/ \E h \in Overlapping : CfMatch(h)
    \/ \E h \in Overlapping : \E st \in FetchOutcomes : CfFetch(h, st)
    \/ \E h \in Overlapping : CfOpen(h)
    \/ \E h \in Overlapping : \E st \in FetchOutcomes : NfFetch(h, st)
    \/ \E h \in Overlapping : NfOpen(h)
    \/ \E h \in Overlapping : NfMatch(h)
    \/ \E h \in Overlapping : SwrMatch(h)
    \/ \E h \in Overlapping : \E st \in FetchOutcomes : SwrFetch(h, st)
    \/ \E h \in Overlapping : SwrOpen(h)
    \/ \E h \in Overlapping : SwrPut(h)
    \/ \E h \in Overlapping : PutComplete(h)

SpecOverlap == WorkerStart /\ [][NextOverlap]_vars

\* push events of every payload
NextPush ==
    \/ InstallEvent
    \/ InstallOpen
    \/ \E ok \in BOOLEAN : InstallAddAll(ok)
    \/ InstallSkipWaiting
    \/ ActivateEvent
    \/ ActivateKeys
    \/ \E n \in AllCacheNames : ActivateDelete(n)
    \/ ActivateClaim
    \/ \E p \in Payloads : PushEvent(p)

SpecPush == WorkerStart /\ [][NextPush]_vars

\* clicks on the notifications shown, while the user opens and closes windows
NextClick ==
    \/ InstallEvent
    \/ InstallOpen
    \/ \E ok \in BOOLEAN : InstallAddAll(ok)
    \/ InstallSkipWaiting
    \/ ActivateEvent
    \/ ActivateKeys
    \/ \E n \in AllCacheNames : ActivateDelete(n)
    \/ ActivateClaim
    \/ \E p \in DataPayloads : PushEvent(p)
    \/ \E u \in ClientUrls : WindowOpens(u)
    \/ WindowCloses
    \/ \E i \in 1 .. MaxPushes : \E a \in ClickActions : NotificationClick(i, a)
    \/ MatchAllResolves

SpecClick == WorkerStart /\ [][NextClick]_vars

\* the page and the worker it registers share the origin's Cache Storage
NextClear ==
    \/ InstallEvent
    \/ InstallOpen
    \/ \E ok \in BOOLEAN : InstallAddAll(ok)
    \/ InstallSkipWaiting
    \/ ActivateEvent
    \/ ActivateKeys
    \/ \E n \in AllCacheNames : ActivateDelete(n)
    \/ ActivateClaim
    \/ PostedMessage
    \/ ClearCacheKeys
    \/ \E n \in AllCacheNames : ClearCacheDelete(n)
    \/ LoadEvent
    \/ RegisterSettles
    \/ PwaClearCache
    \/ PwaClearCacheKeys
    \/ \E n \in AllCacheNames : PwaClearCacheDelete(n)

SharedStart == IdleSelector /\ InitSW /\ IdleMaps /\ InitPwa
SpecClear == SharedStart /\ [][NextClear]_vars

\* clearCache next to the fetch handlers of the worker it clears
NextRace ==
    \/ InstallEvent
    \/ InstallOpen
    \/ \E ok \in BOOLEAN : InstallAddAll(ok)
    \/ InstallSkipWaiting
    \/ ActivateEvent
    \/ ActivateKeys
    \/ \E n \in AllCacheNames : ActivateDelete(n)
    \/ ActivateClaim
    \/ \E h \in Handlers : \E req \in RacingRequests : FetchEvent(h, req)
    \/ \E h \in Handlers : CfMatch(h)
    \/ \E h \in Handlers : \E st \in FetchOutcomes : CfFetch(h, st)
    \/ \E h \in Handlers : CfOpen(h)
    \/ \E h \in Handlers : \E st \in FetchOutcomes : NfFetch(h, st)
    \/ \E h \in Handlers : NfOpen(h)
    \/ \E h \in Handlers : NfMatch(h)
    \/ \E h \in Handlers : PutComplete(h)
    \/ PostedMessage
    \/ ClearCacheKeys
    \/ \E n \in AllCacheNames : ClearCacheDelete(n)
    \/ LoadEvent
    \/ RegisterSettles
    \/ PwaClearCache
    \/ PwaClearCacheKeys
    \/ \E n \in AllCacheNames : PwaClearCacheDelete(n)

\* everything that writes to Cache Storage in the worker: lifecycle, fetch
\* events, the three executors, messages and background sync
NextFrame ==
    \/ InstallEvent
    \/ InstallOpen
    \/ \E ok \in BOOLEAN : InstallAddAll(ok)
    \/ InstallSkipWaiting
    \/ ActivateEvent
    \/ ActivateKeys
    \/ \E n \in AllCacheNames : ActivateDelete(n)
    \/ ActivateClaim
    \/ \E t \in MessageTypes : \E urls \in UrlLists : MessageEvent(t, urls)
    \/ CacheUrlsOpen
    \/ \E ok \in BOOLEAN : CacheUrlsAddAll(ok)
    \/ ClearCacheKeys
    \/ \E n \in AllCacheNames : ClearCacheDelete(n)
    \/ \E h \in Handlers : \E req \in Requests : FetchEvent(h, req)
    \/ \E h \in Handlers : \E req \in Requests : \E s \in Executors : ExecutorCall(h, req, s)
    \/ \E h \in Handlers : CfMatch(h)
    \/ \E h \in Handlers : \E st \in FetchOutcomes : CfFetch(h, st)
    \/ \E h \in Handlers : CfOpen(h)
    \/ \E h \in Handlers : \E st \in FetchOutcomes : NfFetch(h, st)
    \/ \E h \in Handlers : NfOpen(h)
    \/ \E h \in Handlers : NfMatch(h)
    \/ \E h \in Handlers : NfOffline(h)
    \/ \E h \in Handlers : SwrMatch(h)
    \/ \E h \in Handlers : \E st \in FetchOutcomes : SwrFetch(h, st)
    \/ \E h \in Handlers : SwrOpen(h)
    \/ \E h \in Handlers : SwrPut(h)
    \/ \E h \in Handlers : PutComplete(h)
    \/ \E tag \in SyncTags : SyncEvent(tag)
    \/ SyncOpen
    \/ SyncKeys
    \/ SyncLoop

SpecFrame == WorkerStart /\ [][NextFrame]_vars

\* the worker under a browser that activates a waiting worker whose
\* skip-waiting flag is set
SpecSWLive == WorkerStart /\ [][NextSW]_vars /\ WF_vars(ActivateEvent)

RaceStart ==
    IdleSelector /\ InitSW /\ IdleMaps /\ permission = "default" /\ HelperLoaded(TRUE)
SpecRace == RaceStart /\ [][NextRace]_vars

-----------------------------------------------------------------------------
(* Properties of the strategy selector (checked under SpecSelector) *)

Selected == strategy # NotSelected

StaticAssetPath(p) ==
    \/ \E e \in StaticExtensions : EndsWith(p, <<".">> \o e)
    \/ StartsWith(p, FrameworkPrefix)
    \/ StartsWith(p, ContentPrefix)

ApiOrHtmlPath(p) ==
    StartsWith(p, ApiPrefix) \/ EndsWith(p, Slash) \/ EndsWith(p, HtmlSuffix)

\* C1: every pathname that ends in a static-asset extension or starts with
\* /_framework/ or /_content/ is classified cache-first.
C1_StaticAssetsCacheFirst ==
    (Selected /\ StaticAssetPath(pathname)) => strategy = CACHE_FIRST

\* C1 witness: an API path that ends in a static extension was classified.
C1_Witness ==
    Selected /\ StartsWith(pathname, ApiPrefix) /\ EndsWith(pathname, <<".", "j", "s">>)

\* C2 as stated: every pathname under /api/ or ending in "/" or ".html" is
\* classified network-first.
C2_ApiAndHtmlNetworkFirst ==
    (Selected /\ ApiOrHtmlPath(pathname)) => strategy = NETWORK_FIRST

\* C2 amended: a pathname under /api/ or ending in "/" or ".html" is
\* classified network-first unless one of the earlier cache-first rules
\* (static extension, /_framework/, /_content/) matches it.
C2_NetworkFirstUnlessStatic ==
    (Selected /\ ApiOrHtmlPath(pathname) /\ ~StaticAssetPath(pathname))
        => strategy = NETWORK_FIRST

\* C2 witness: an .html page outside the framework and content prefixes.
C2_Witness ==
    Selected /\ EndsWith(pathname, HtmlSuffix) /\ ~StaticAssetPath(pathname)
             /\ ~StartsWith(pathname, ApiPrefix)

-----------------------------------------------------------------------------
(* Properties of the service worker (checked under SpecSW) *)

EntryExists(req) ==
    /\ req.method = "GET"
    /\ \E n \in NameSet(cacheNames) : req.url \in DOMAIN cacheEntries[n]

CachedCopies(url) ==
    { cacheEntries[n][url] : n \in { m \in NameSet(cacheNames) : url \in DOMAIN cacheEntries[m] } }

\* C3: when cacheFirst looks the request up and some namespace holds an entry
\* for it, the handler finishes with that cached entry and has issued no
\* fetch; a finished cacheFirst handler issues none afterwards.
C3_CacheFirstHitNoFetch ==
    [][\A h \in Handlers :
         /\ (handlers[h].pc = "cf_match" /\ handlers'[h].pc # "cf_match"
               /\ EntryExists(handlers[h].request))
            => /\ handlers'[h].pc = "done"
               /\ handlers'[h].result \in CachedCopies(handlers[h].request.url)
               /\ handlers'[h].fetches = 0
         /\ (handlers[h].pc = "done" /\ handlers[h].strategy = CACHE_FIRST)
            => /\ handlers'[h].fetches = handlers[h].fetches
               /\ handlers'[h].result = handlers[h].result]_vars

\* C3 witness: a cacheFirst handler finished from the cache without a fetch.
C3_Witness ==
    \E h \in Handlers :
        /\ handlers[h].strategy = CACHE_FIRST /\ handlers[h].pc = "done"
        /\ handlers[h].cached # NoResponse /\ handlers[h].fetches = 0

\* C4: when networkFirst's fetch was rejected and some namespace holds an
\* entry for the request, the handler finishes with that cached entry, not
\* with the synthetic 503 and not with the offline document.
C4_NetworkFirstFallsBackToCache ==
    [][\A h \in Handlers :
         (handlers[h].pc = "nf_match" /\ handlers'[h].pc # "nf_match"
            /\ EntryExists(handlers[h].request))
         => /\ handlers'[h].pc = "done"
            /\ handlers'[h].result \in CachedCopies(handlers[h].request.url)
            /\ handlers'[h].result.url = handlers[h].request.url
            /\ handlers'[h].result # Synthetic503]_vars

\* C4 witness: a navigation whose fetch was rejected was answered from the cache.
C4_Witness ==
    \E h \in Handlers :
        /\ handlers[h].strategy = NETWORK_FIRST /\ handlers[h].pc = "done"
        /\ handlers[h].request.mode = "navigate"
        /\ handlers[h].net = NetworkError /\ handlers[h].cached # NoResponse
        /\ handlers[h].result = handlers[h].cached

\* C5 as stated: a navigation handled by networkFirst whose fetch was
\* rejected and which no cache entry matched is answered with the offline
\* document, in every state after a successful install.
C5_NavigationGetsOfflinePage ==
    \A h \in Handlers :
        (/\ handlers[h].pc = "done" /\ handlers[h].strategy = NETWORK_FIRST
         /\ handlers[h].request.mode = "navigate"
         /\ handlers[h].net = NetworkError /\ handlers[h].cached = NoResponse)
        => (handlers[h].result.url = OFFLINE_URL /\ handlers[h].result.status = 200)

ActivateStep == activatePc' # activatePc \/ activateLeft' # activateLeft

\* C6: once the activate handler has completed, no namespace it listed other
\* than CACHE_NAME and RUNTIME_CACHE exists; and no step of the activate
\* handler removes CACHE_NAME or RUNTIME_CACHE or changes their entries.
C6_ActivatePurgesStaleOnly ==
    /\ [](activatePc = "claimed" =>
            \A n \in activateKeys :
                (n # CACHE_NAME /\ n # RUNTIME_CACHE) => ~CacheExists(cacheNames, n))
    /\ [][ActivateStep =>
            \A n \in {CACHE_NAME, RUNTIME_CACHE} :
                CacheExists(cacheNames, n) =>
                    (CacheExists(cacheNames', n) /\ cacheEntries'[n] = cacheEntries[n])]_vars

\* C6 witness: activation completed over a storage that held stale
\* namespaces, and the precache and a populated runtime cache are still there.
C6_Witness ==
    /\ activatePc = "claimed"
    /\ StaleCacheNames \subseteq activateKeys
    /\ CacheExists(cacheNames, CACHE_NAME)
    /\ CacheExists(cacheNames, RUNTIME_CACHE)
    /\ cacheEntries[RUNTIME_CACHE] # NoEntries
    /\ cacheEntries[CACHE_NAME] # NoEntries

-----------------------------------------------------------------------------
(* Properties of the map wrappers (checked under SpecMaps) *)

\* the add-overlay operations of the four wrappers
AddOps == GisShapeOps \cup {"addGeoJson", "addLayer"} \cup LwShapeOps \cup LwGeoJsonOps
          \cup LandOps \cup DashOps
AddedWithoutMap == lastCall.op \in AddOps /\ ~lastCall.hadMap
\* a step that is an add-overlay call made while the wrapper holds no handle
AddsWithoutMap == map = 0 /\ lastCall'.op \in AddOps /\ ~lastCall'.hadMap
LoggingWrappers == {"leafletWrapper", "dashboard"}

EmptyCollectionText == Stringify(FC(<<>>))
ExportedAfterClear == lastCall.op \in ExportOps /\ lastCall.afterClear

\* C8 (as stated): clearMap followed by the export of everything returns a
\* feature collection with zero features.
C8_ClearThenExportIsEmpty == ExportedAfterClear => exported = EmptyCollectionText

\* C8 (amended): clearMap followed by the export of everything returns a
\* feature collection with zero features, except that getDrawnGeoJson of
\* leafletWrapper.js returns null when the draw tools were never initialised.
C8_ClearThenExportIsEmptyOrNull ==
    ExportedAfterClear =>
        exported = IF wrapper = "leafletWrapper" /\ ~drawnItems.exists
                   THEN NullValue ELSE EmptyCollectionText

\* C8 witness: the GIS wrapper exported an empty collection right after a
\* clearMap, and layers with features had been created before.
C8_Witness ==
    /\ wrapper = "gis" /\ ExportedAfterClear
    /\ exported = EmptyCollectionText
    /\ \E i \in DOMAIN overlays :
          overlays[i].kind # "marker" /\ overlays[i].features # <<>> /\ overlays[i].on = 0

\* what the export of everything would return now
CurrentExport ==
    IF wrapper = "gis" THEN ExportAllLayers(overlays, layers)
    ELSE DrawnGeoJson(overlays, drawnItems)

\* C9: after export, clearMap and re-import of the exported data, the export
\* of the registry has as many features as the original export had.
C9_RoundTripKeepsFeatureCount ==
    roundTrip.phase = 3 => Len(CurrentExport.features) = roundTrip.count

\* C10: at most one map instance is live at any time.
C10_AtMostOneLiveMap == Cardinality(LiveMaps) <= 1

\* the overlays the wrapper's registries and auxiliary groups refer to
Registered ==
    IF wrapper = "gis" THEN Values(layers) \cup Values(markers)
    ELSE IF wrapper = "leafletWrapper" THEN Members(layerGroup) \cup Members(drawnItems)
    ELSE IF wrapper = "land" THEN LandRegistered
    ELSE IF wrapper = "dashboard" THEN Range(markers) \cup Range(polygons)
    ELSE {}
\* this step destroys map m
Destroys(m) == m \in LiveMaps /\ maps'[m].removed

\* C11: when a step destroys the map the wrapper holds, the registries and
\* auxiliary groups afterwards hold no overlay that was on that map and no
\* control that was added to it.
C11_DestroyInvalidatesRegistries ==
    [][\A m \in 1 .. Len(maps) :
          (Destroys(m) /\ m = map) =>
              /\ \A i \in Registered' : overlays[i].on # m
              /\ drawControl' # m]_vars

\* a removeLayer call whose identifier is not in the registry
RemovesUnknown == lastCall'.op = "removeLayer" /\ ~HasKey(layers, lastCall'.arg)

\* C12: removeLayer(id) never throws and leaves id out of the registry, and
\* removeLayer with an identifier that is not in the registry changes
\* nothing (so a second removeLayer(id) leaves what the first one left).
C12_RemoveLayerIdempotent ==
    /\ [](lastCall.op = "removeLayer" =>
            (~lastCall.threw /\ ~HasKey(layers, lastCall.arg)))
    /\ [][RemovesUnknown => UNCHANGED <<map, maps, overlays, registryVars>>]_vars

-----------------------------------------------------------------------------
(* Properties of pwa-helper.js (checked under SpecPwa) *)

LoadHandled == page \in {"initialized", "crashed"}

\* C13: once the load event has been handled, initializePWA has run every
\* setup step without throwing (the connection listeners of the last but one
\* step are registered) and window.PWA is exposed, whether or not the
\* service-worker registration has settled.
C13_InitializeCompletes ==
    LoadHandled => /\ page = "initialized"
                   /\ ConnectionListeners \subseteq listeners
                   /\ apiExposed

InstallReturns == installCall.pc # "done" /\ installCall'.pc = "done"
InstallStarts == installCall.pc # "awaiting" /\ installCall' # installCall

\* C19: a finished install() has returned true exactly when a deferred
\* prompt was held at the call and that prompt's userChoice was 'accepted',
\* and false otherwise; when it returns, deferredInstallPrompt is null; a
\* call made while no prompt is held returns false at once, and only a
\* beforeinstallprompt event makes a prompt held again.
C19_InstallReturnsAccepted ==
    /\ [](installCall.pc = "done" =>
            installCall.result =
               (IF installCall.held
                   /\ promptEvents[installCall.event].choice = "accepted"
                THEN "true" ELSE "false"))
    /\ [][/\ InstallReturns => deferredInstallPrompt' = 0
          /\ (InstallStarts /\ deferredInstallPrompt = 0)
                => (installCall'.pc = "done" /\ installCall'.result = "false"
                      /\ ~installCall'.held)
          /\ (deferredInstallPrompt = 0 /\ deferredInstallPrompt' # 0)
                => /\ Len(promptEvents') = Len(promptEvents) + 1
                   /\ deferredInstallPrompt' = Len(promptEvents')]_vars

\* C19 witness: install() was called with a prompt held, the user accepted,
\* the call returned true and the prompt is cleared.
C19_Witness ==
    /\ installCall.pc = "done" /\ installCall.held /\ installCall.result = "true"
    /\ promptEvents[installCall.event].choice = "accepted"
    /\ deferredInstallPrompt = 0

MayProceed(call) == call.hadRegistration /\ call.permission = "granted"

\* C20: subscribeToPush has called pushManager.subscribe only in a call that
\* found a registration and got 'granted' from the permission request; the
\* permission dialog is opened only when the permission is 'default', never
\* when it is 'denied'; a finished call in any other case has rejected
\* without calling subscribe, and a push subscription comes into being only
\* in the step in which such a subscribe call succeeds.
C20_SubscribeOnlyWhenGranted ==
    /\ [](/\ pushCall.called => MayProceed(pushCall)
          /\ (pushCall.pc = "done" /\ ~MayProceed(pushCall))
               => (pushCall.outcome = "rejected" /\ ~pushCall.called)
          /\ (pushCall.pc = "done" /\ pushCall.outcome = "resolved") => pushCall.called)
    /\ [][/\ (~pushCall.prompted /\ pushCall'.prompted) => permission = "default"
          /\ permission = "denied" => (permission' = "denied" /\ pushCall'.pc # "asking")
          /\ (~subscription /\ subscription')
               => /\ pushCall.pc = "subscribing" /\ MayProceed(pushCall)
                  /\ pushCall'.outcome = "resolved"]_vars

\* C20 witness: a call that found the registration asked for permission, was
\* granted it, called subscribe and created the subscription.
C20_Witness ==
    /\ pushCall.pc = "done" /\ pushCall.called /\ pushCall.prompted
    /\ pushCall.outcome = "resolved" /\ subscription

-----------------------------------------------------------------------------
(* Properties of the worker's lifecycle (checked under SpecSW) *)

CurrentNames == {CACHE_NAME, RUNTIME_CACHE}

LeavesInstalling == swState = "installing" /\ swState' # "installing"
ClaimsClients == activatePc # "claimed" /\ activatePc' = "claimed"

\* C17: the worker leaves installing either as installed, and then
\* cache.addAll has succeeded (the install handler stood at its skipWaiting
\* step and the precache holds every precache asset), or as redundant after a
\* failed addAll, and then the install handler has not called skipWaiting;
\* clients are claimed only when every caches.delete of the activate handler
\* has completed and Cache Storage holds no namespace but the two current ones.
C17_LifecycleOrdering ==
    /\ [][LeavesInstalling =>
            IF swState' = "installed"
            THEN /\ installPc = "skipWaiting"
                 /\ PRECACHE_ASSETS \subseteq DOMAIN cacheEntries'[CACHE_NAME]
            ELSE /\ swState' = "redundant"
                 /\ installPc = "addAll" /\ installPc' = "failed"
                 /\ ~skipWaitingFlag']_vars
    /\ [](installPc = "failed" => (swState = "redundant" /\ ~skipWaitingFlag))
    /\ [][ClaimsClients =>
            /\ activateLeft = {}
            /\ NameSet(cacheNames) \subseteq CurrentNames]_vars

\* C17 witness: a worker that found namespaces of an earlier generation has
\* installed, deleted them and claimed its clients.
C17_Witness ==
    /\ swState = "activated" /\ activatePc = "claimed"
    /\ activateKeys \ CurrentNames # {}
    /\ PRECACHE_ASSETS \subseteq DOMAIN cacheEntries[CACHE_NAME]

-----------------------------------------------------------------------------
(* Activation without the page's help (checked under SpecSWLive) *)

SkipWaitingMessage == MessageEvent("SKIP_WAITING", {})

\* C35: the install handler calls skipWaiting itself once the precache is
\* fully populated, so an installed worker always has its skip-waiting flag
\* set, whether or not a page has posted SKIP_WAITING, and goes on to
\* activation; the SKIP_WAITING message changes nothing in Cache Storage.
C35_ActivatesWithoutSkipWaitingMessage ==
    /\ [][LeavesInstalling /\ swState' = "installed" =>
            /\ msgCount = 0 /\ ~skipWaitingFlag /\ skipWaitingFlag'
            /\ PRECACHE_ASSETS \subseteq DOMAIN cacheEntries'[CACHE_NAME]]_vars
    /\ [](swState = "installed" => skipWaitingFlag)
    /\ (swState = "installed") ~> (swState = "activating")
    /\ [][SkipWaitingMessage => UNCHANGED <<cacheNames, cacheEntries, cacheEpoch>>]_vars

\* C35 witness: a worker has installed over a populated precache and reached
\* activated, and no message was ever posted to it.
C35_Witness ==
    /\ swState = "activated" /\ msgCount = 0
    /\ PRECACHE_ASSETS \subseteq DOMAIN cacheEntries[CACHE_NAME]

-----------------------------------------------------------------------------
(* Properties of the fetch handler's dispatch (checked under SpecSW) *)

\* what getCachingStrategy returns over the pathnames of the selector harness
SelectorRange == { getCachingStrategy(p) : p \in Pathnames }

IsResponse(r) == r.status # 0

CfNfSteps ==
    {"cf_match", "cf_fetch", "cf_open", "nf_fetch", "nf_open", "nf_match", "nf_offline",
     "done"}

\* C16: getCachingStrategy returns only cache-first or network-first; a fetch
\* event for a same-origin request is answered by cacheFirst or networkFirst
\* (its handler is at a step of one of the two, never of another strategy);
\* a fetch event for a cross-origin request gets no response from the worker,
\* issues no fetch, starts no cache write and its dispatch leaves Cache
\* Storage unchanged.
C16_OnlyCacheFirstOrNetworkFirst ==
    /\ [](/\ SelectorRange \subseteq {CACHE_FIRST, NETWORK_FIRST}
          /\ \A h \in Handlers :
               handlers[h].pc # "idle"
               => IF handlers[h].request.sameOrigin
                  THEN /\ handlers[h].strategy \in {CACHE_FIRST, NETWORK_FIRST}
                       /\ handlers[h].pc \in CfNfSteps
                  ELSE /\ handlers[h].pc = "ignored"
                       /\ handlers[h].result = NoResponse
                       /\ handlers[h].fetches = 0
                       /\ handlers[h].put = "none")
    /\ [][\A h \in Handlers :
            (handlers[h].pc = "idle" /\ handlers'[h].pc = "ignored")
            => UNCHANGED <<cacheNames, cacheEntries, cacheEpoch>>]_vars

\* C16 witness: a same-origin request has been answered by networkFirst.
C16_Witness ==
    \E h \in Handlers :
        /\ handlers[h].pc = "done" /\ handlers[h].request.sameOrigin
        /\ handlers[h].strategy = NETWORK_FIRST
        /\ IsResponse(handlers[h].result)

-----------------------------------------------------------------------------
(* Properties of background sync (checked under SpecSync) *)

RuntimeUrls(entries) == DOMAIN entries[RUNTIME_CACHE]

\* a non-GET request whose URL contains /api/
QueuedApiCall(k) == k.method # "GET" /\ Includes(PathOf(k.url), ApiPrefix)

CompletedOk(r) ==
    \/ \E h \in Handlers : handlers[h].request = r /\ handlers[h].net.status = 200
    \/ /\ r.method = "GET"
       /\ CacheExists(cacheNames, RUNTIME_CACHE)
       /\ r.url \in RuntimeUrls(cacheEntries)
       /\ cacheEntries[RUNTIME_CACHE][r.url].status = 200

\* C31: syncData never sends a request a second time whose original fetch
\* through the fetch handler completed with status 200: no such request is
\* among the requests syncData has re-issued, and no step of its loop picks
\* one for `await fetch(request)`.
C31_SyncNeverResendsCompleted ==
    /\ [](\A r \in sync.keys \cup { handlers[h].request : h \in Handlers } :
             CompletedOk(r) => r \notin sync.replayed)
    /\ [][\A r \in sync.keys : CompletedOk(r) => ~(sync'.pc = "fetch" /\ sync'.current = r)]_vars

\* C31 witness: syncData has run to its end over a runtime cache that holds
\* the answer of a completed API fetch.
C31_Witness ==
    /\ sync.pc = "resolved"
    /\ sync.tag = "sync-data"
    /\ \E r \in sync.keys : CompletedOk(r) /\ Includes(PathOf(r.url), ApiPrefix)
    /\ \E h \in Handlers : handlers[h].put = "settled"

-----------------------------------------------------------------------------
(* The precache under fetch handling, messages and sync (checked under SpecFrame) *)

\* a namespace of Cache Storage as a page sees it: absent, or its entries
Namespace(names, entries, n) == IF CacheExists(names, n) THEN entries[n] ELSE NoEntries
Precache(names, entries) == <<CacheExists(names, CACHE_NAME), Namespace(names, entries, CACHE_NAME)>>

\* a step of the install handler
InstallStep == installPc' # installPc

\* the CLEAR_CACHE handler deletes the precache
ClearsPrecache ==
    /\ msg.type = "CLEAR_CACHE" /\ msg.pc = "delete" /\ CACHE_NAME \in msg.left
    /\ ~CacheExists(cacheNames', CACHE_NAME)

\* a step of a fetch handler or executor, of the CACHE_URLS handler or of syncData
FetchOrSyncStep ==
    handlers' # handlers \/ sync' # sync \/ (msg.type = "CACHE_URLS" /\ msg' # msg)

\* C34: the precache changes only in a step of the install handler or when
\* CLEAR_CACHE deletes it; a step of cacheFirst, networkFirst,
\* staleWhileRevalidate, of the CACHE_URLS handler or of syncData changes no
\* entry of the precache, and the only namespace it creates is the runtime
\* cache.
C34_OnlyInstallAndClearTouchPrecache ==
    [][/\ Precache(cacheNames', cacheEntries') # Precache(cacheNames, cacheEntries)
            => InstallStep \/ ClearsPrecache
       /\ FetchOrSyncStep
            => /\ Precache(cacheNames', cacheEntries') = Precache(cacheNames, cacheEntries)
               /\ NameSet(cacheNames') \ NameSet(cacheNames) \subseteq {"council-app-runtime"}
               /\ NameSet(cacheNames) \subseteq NameSet(cacheNames')]_vars

\* C34 witness: with the precache fully populated, a fetch handler and the
\* CACHE_URLS handler have written to the runtime cache and syncData has run.
C34_Witness ==
    /\ Precache(cacheNames, cacheEntries)[1]
    /\ DOMAIN cacheEntries[CACHE_NAME] = PRECACHE_ASSETS
    /\ sync.pc = "resolved"
    /\ \E u, v \in RuntimeUrls(cacheEntries) :
          /\ cacheEntries["council-app-runtime"][u].from = "message"
          /\ cacheEntries["council-app-runtime"][v].from = FromHandler(1)

-----------------------------------------------------------------------------
(* Drawing and measurement tools on one map (checked under SpecTools) *)

\* a click listener of a drawing mode is attached to the wrapper's map
DrawingListenerAttached ==
    \E i \in 1 .. Len(clickHandlers) :
       clickHandlers[i].on = map /\ clickHandlers[i].mode \in ShapeModes

\* C36: after any sequence of enableDrawingMode, disableDrawingMode,
\* enableMeasurement, disableMeasurement and clicks, currentDrawingMode is
\* non-null exactly when a drawing click listener is attached to the map, and
\* the map has at most one click listener.
C36_ModeTracksListener ==
    /\ (currentDrawingMode # "null") <=> (map # 0 /\ DrawingListenerAttached)
    /\ Len(ListenersOn(clickHandlers, map)) <= 1

-----------------------------------------------------------------------------
(* Registries and clear operations (checked under SpecRegistry) *)

\* the wrapper's clear operations have just emptied its registries
JustCleared ==
    \/ wrapper = "gis" /\ lastCall.op = "clearMap" /\ map # 0
    \/ /\ wrapper = "dashboard" /\ map # 0
       /\ lastCall.op \in {"clearLeafletMarkers", "clearLeafletPolygons"}
       /\ markers = <<>> /\ polygons = <<>>

\* C37: in the GIS wrapper and the dashboard wrapper every overlay an add
\* operation has attached to the wrapper's map is held in the wrapper's
\* registry, and after the clear operations no overlay is attached to the
\* map, addLayer with an identifier that is already registered included.
C37_ClearDetachesEveryAddedOverlay ==
    /\ map # 0 => OnMap(map) \subseteq Registered
    /\ JustCleared => OnMap(map) = {}

-----------------------------------------------------------------------------
(* The base map of the GIS wrapper (checked under SpecBase) *)

\* the base tile layers attached to map m
BaseOn(m) == { t \in DOMAIN tileLayers : tileLayers[t].role = "base" /\ tileLayers[t].on = m }

\* C38: in the GIS wrapper, after createMap and any sequence of changeBaseMap
\* calls (calls that return early for want of an API key and switches to and
\* from the hybrid map included), exactly one base tile layer is attached to
\* the map and it is the layer currentBaseLayer refers to.
C38_OneBaseLayerIsCurrent ==
    (map # 0 /\ IsLive(map)) => BaseOn(map) = {currentBaseLayer}

-----------------------------------------------------------------------------
(* The map handle after a failed create (checked under SpecMaps) *)

\* C39: in every map wrapper a map handle that is not null refers to a live
\* map: after a create or initialize call in which the library throws, the
\* handle is absent or is a map that has not been removed, never an instance
\* on which remove() was already called.
C39_HandleIsLive == map # 0 => IsLive(map)

-----------------------------------------------------------------------------
(* Cache clearing next to fetch handlers (checked under SpecRace) *)

\* the runtime cache holds the response that handler h fetched
HoldsResponseOf(h) ==
    /\ CacheExists(cacheNames, RUNTIME_CACHE)
    /\ \E u \in RuntimeUrls(cacheEntries) :
          cacheEntries[RUNTIME_CACHE][u].from = FromHandler(h)

\* C33: once clearCache() has resolved, the runtime cache holds no response
\* whose fetch had already started when clearCache was called, in every
\* interleaving with the fetch handlers in flight.
C33_NoStaleWriteAfterClear ==
    clearCall.pc = "resolved" => \A h \in clearCall.inFlight : ~HoldsResponseOf(h)

-----------------------------------------------------------------------------
(* Properties of the install prompt (checked under SpecPwa) *)

\* C32: prompt() is called at most once on each captured beforeinstallprompt
\* event, over every interleaving of install() calls and clicks on the
\* banner's install button, a call made while another one awaits the user's
\* choice included.
C32_PromptShownAtMostOnce ==
    \A e \in 1 .. Len(promptEvents) : promptEvents[e].calls <= 1

-----------------------------------------------------------------------------
(* Properties of the strategy executors (checked under SpecExecutors) *)

\* the promise an executor returned has settled: staleWhileRevalidate with a
\* cached response settles while its fetch is still under way
Settled(hr) ==
    \/ hr.pc = "done"
    \/ hr.strategy = STALE_WHILE_REVALIDATE /\ hr.pc \in {"swr_fetch", "swr_open", "swr_put"}
         /\ hr.cached # NoResponse

\* C14: whatever the caches hold and whatever the network does, a settled
\* executor (cacheFirst, networkFirst, staleWhileRevalidate) has resolved to a
\* response, never to undefined and never to a rejection; when the fetch was
\* rejected and no cache held a fallback the response is the synthetic 503.
C14_ExecutorsAlwaysRespond ==
    \A h \in Handlers :
        (handlers[h].strategy \in Executors /\ Settled(handlers[h]))
        => /\ IsResponse(handlers[h].result)
           /\ (handlers[h].net = NetworkError /\ handlers[h].cached = NoResponse
                 /\ handlers[h].request.mode # "navigate")
              => handlers[h].result = Synthetic503

RuntimeEntries(entries) == entries[RUNTIME_CACHE]

\* the cache.put an executor started lands in this step
PutLands(h) == handlers[h].put = "pending" /\ handlers'[h].put = "settled"

\* an executor's fetch settles in this step without a 200 response
FetchFails(h) ==
    /\ handlers[h].pc \in {"cf_fetch", "nf_fetch", "swr_fetch"}
    /\ handlers'[h].pc # handlers[h].pc
    /\ handlers'[h].net.status # 200

\* C15: an executor starts a cache.put only for a response its own fetch
\* returned with status 200, and the put writes exactly that response under
\* the request's URL; the step in which a fetch is rejected or returns another
\* status writes nothing, so the runtime cache, an existing entry for the URL
\* included, is as before, and that executor never starts a put.
C15_OnlyOkResponsesCached ==
    /\ [](\A h \in Handlers :
            handlers[h].put # "none"
            => /\ handlers[h].net.status = 200
               /\ handlers[h].net = Fetched(handlers[h].request.url, 200, FromHandler(h)))
    /\ [][\A h \in Handlers :
            /\ PutLands(h)
               => \A u \in DOMAIN RuntimeEntries(cacheEntries') :
                     IF u = handlers[h].request.url
                     THEN RuntimeEntries(cacheEntries')[u] = handlers[h].net
                     ELSE /\ u \in DOMAIN RuntimeEntries(cacheEntries)
                          /\ RuntimeEntries(cacheEntries')[u] = RuntimeEntries(cacheEntries)[u]
            /\ FetchFails(h)
               => /\ cacheEntries' = cacheEntries
                  /\ handlers'[h].put = "none"]_vars

\* C15 witness: the put of an executor has landed and the runtime cache holds
\* the 200 response under the request's URL.
C15_Witness ==
    \E h \in Handlers :
        /\ handlers[h].put = "settled"
        /\ handlers[h].request.url \in DOMAIN RuntimeEntries(cacheEntries)
        /\ RuntimeEntries(cacheEntries)[handlers[h].request.url] = handlers[h].net

-----------------------------------------------------------------------------
(* PWA.clearCache *)

\* the namespace n has been deleted since clearCache listed the namespaces
DeletedSinceListed(n) == cacheEpoch[n] > clearCall.epochs[n]

\* the step of clearCache that posts: it deletes nothing, and it posts exactly
\* when the page holds a registration with an active worker
PostsFirst ==
    (clearCall.pc = "idle" /\ clearCall'.pc # "idle")
        => /\ UNCHANGED cacheVars
           /\ clearCall'.posted = (registration # NoRegistration
                                   /\ swState \in {"activating", "activated"})

\* C21: clearCache posts CLEAR_CACHE to the active worker, when there is one,
\* before it lists and deletes; a worker receives the message only after the
\* post; and when the promise of clearCache has resolved, every namespace
\* that existed when clearCache listed them has been deleted since
C21_ClearCacheDeletesListed ==
    /\ [][PostsFirst]_vars
    /\ [](msg.type = "CLEAR_CACHE" => clearCall.posted /\ clearCall.pc # "idle")
    /\ [](clearCall.pc = "resolved" => \A n \in clearCall.listed : DeletedSinceListed(n))

\* clearCache posted to the active worker, listed the precache and the runtime
\* cache, and resolved
C21_Witness ==
    /\ clearCall.pc = "resolved" /\ clearCall.posted
    /\ {CACHE_NAME, RUNTIME_CACHE} \subseteq clearCall.listed

-----------------------------------------------------------------------------
(* Push notifications *)

\* the descriptor of the notification the last push event showed
LastShown == lastPush.shown[1]

\* every field of the descriptor but the body is the default
DefaultsButBody ==
    /\ \A f \in FieldNames \ {"body"} : LastShown.fields[f] = DefaultField(f)
    /\ LastShown.requireInteraction = "false"

\* C22: every push event shows exactly one notification; without a payload
\* its fields are the defaults; with a payload that is not JSON its body is
\* the payload's text and the other fields are the defaults; with a JSON
\* payload each of title, body, icon, badge and tag is the payload's member
\* when the payload has it and the default otherwise, and requireInteraction
\* is false unless the payload gives it
C22_PushShowsPayloadOrDefaults ==
    /\ Len(notifications) = pushCount
    /\ pushCount > 0 =>
         /\ Len(lastPush.shown) = 1
         /\ CASE lastPush.payload.kind = "none" ->
                   DefaultsButBody /\ LastShown.fields["body"] = DefaultField("body")
              [] lastPush.payload.kind = "malformed" ->
                   DefaultsButBody /\ LastShown.fields["body"] = lastPush.payload.text
              [] OTHER ->
                   /\ \A f \in FieldNames :
                        LastShown.fields[f] =
                          IF lastPush.payload.fields[f] # Absent
                          THEN lastPush.payload.fields[f] ELSE DefaultField(f)
                   /\ LastShown.requireInteraction =
                        IF lastPush.payload.requireInteraction # Absent
                        THEN lastPush.payload.requireInteraction ELSE "false"

\* the URL a click on the notification is to show: the url of its data, or '/'
TargetOf(i) ==
    IF notifications[i].data \in {Absent, EmptyObject} THEN "/" ELSE notifications[i].data

\* the window clients, as the handler listed them, that are at the URL u
ListedAt(u) == { j \in 1 .. Len(click.snapshot) : click.snapshot[j] = u }

-----------------------------------------------------------------------------
(* Import of malformed data *)

\* a step that is an import call, on a wrapper that holds a map, with data
\* that is no GeoJSON: an object of an unknown type, or for addLayer a text
\* that is no JSON or the JSON text of such an object
MalformedImport ==
    /\ map # 0
    /\ \/ GisAddGeoJson(InvalidObject)
       \/ \E id \in LayerIds :
            GisAddLayer(id, MalformedText) \/ GisAddLayer(id, Stringify(InvalidObject))
       \/ \E op \in LwGeoJsonOps : LwAddGeoJson(op, InvalidObject)
       \/ drawnItems.exists /\ LwAddDrawnFromGeoJson(InvalidObject)

\* C24: an import call (addLayer, addGeoJson, addGeoJsonWithPopup,
\* addDrawnFromGeoJson) that receives malformed data throws nothing to its
\* caller, logs the error, and leaves the registries and the overlays on the
\* map as they were
C24_MalformedImportIsAbsorbed ==
    [][MalformedImport =>
         /\ ~lastCall'.threw /\ lastCall'.logged
         /\ UNCHANGED <<registryVars, overlays>>]_vars

-----------------------------------------------------------------------------
(* staleWhileRevalidate under overlapping calls *)

\* the step in which the staleWhileRevalidate call h, which found nothing in
\* the cache, learns that its fetch failed
SwrMissFails(h) ==
    /\ handlers[h].strategy = STALE_WHILE_REVALIDATE
    /\ handlers[h].pc = "swr_fetch" /\ handlers[h].cached = NoResponse
    /\ handlers'[h].net = NetworkError

\* the step in which the fetch of the staleWhileRevalidate call h, which
\* found nothing in the cache, succeeds and h has nothing left to await
SwrMissFetched(h) ==
    /\ handlers[h].strategy = STALE_WHILE_REVALIDATE
    /\ handlers[h].pc \in {"swr_fetch", "swr_put"} /\ handlers[h].cached = NoResponse
    /\ handlers'[h].pc = "done" /\ handlers'[h].net.status # Rejected
    /\ handlers'[h].put # "rejected"

\* C25: a staleWhileRevalidate call that finds a cached entry returns it and
\* still fetches, and a 200 response of that fetch is put into the runtime
\* cache; a call that finds none gets the network response when the fetch
\* succeeds, and when the fetch fails it gets what a lookup of the request in
\* the cache gives at that moment
C25_SwrReturnsCachedOrLooksUpAgain ==
    /\ [](\A h \in Overlapping :
            (handlers[h].strategy = STALE_WHILE_REVALIDATE /\ handlers[h].cached # NoResponse)
              => handlers[h].result = handlers[h].cached)
    /\ [][\A h \in Overlapping :
            /\ (handlers[h].strategy = STALE_WHILE_REVALIDATE /\ handlers[h].pc = "swr_match"
                /\ handlers'[h].cached # NoResponse) => handlers'[h].pc = "swr_fetch"
            /\ (handlers[h].strategy = STALE_WHILE_REVALIDATE /\ handlers[h].pc = "swr_fetch"
                /\ handlers'[h].net.status = 200) => handlers'[h].pc = "swr_open"
            /\ (handlers[h].strategy = STALE_WHILE_REVALIDATE /\ PutLands(h))
                 => RuntimeEntries(cacheEntries')[handlers[h].request.url] = handlers[h].net
            /\ SwrMissFetched(h) => handlers'[h].result = handlers'[h].net
            /\ SwrMissFails(h) =>
                 handlers'[h].result = CachesMatch(cacheNames, cacheEntries,
                                                   handlers[h].request)]_vars

-----------------------------------------------------------------------------
(* Cache writes and responses *)

\* the step in which the executor call h hands its response to the caller
HandsOver(h) == ~Settled(handlers[h]) /\ Settled(handlers'[h])

\* C26: cacheFirst (on a miss) and networkFirst hand over the network
\* response while the put they started is still pending; staleWhileRevalidate
\* with a cached entry hands it over before it has fetched or put anything;
\* and an executor hands over after a put of its own has completed only when
\* it is staleWhileRevalidate without a cached entry, which does so whenever
\* it puts
C26_PutsDoNotBlockResponses ==
    [][\A h \in Handlers :
         HandsOver(h) =>
           /\ (handlers'[h].strategy \in {CACHE_FIRST, NETWORK_FIRST}
                /\ handlers'[h].put # "none")
                => /\ handlers'[h].put = "pending"
                   /\ handlers'[h].result = handlers'[h].net
           /\ (handlers'[h].strategy = STALE_WHILE_REVALIDATE
                /\ handlers'[h].cached # NoResponse)
                => /\ handlers'[h].fetches = 0 /\ handlers'[h].put = "none"
                   /\ handlers'[h].pc = "swr_fetch"
           /\ (handlers'[h].strategy = STALE_WHILE_REVALIDATE
                /\ handlers'[h].cached = NoResponse /\ handlers'[h].put # "none")
                => handlers'[h].put \in {"settled", "rejected"}
           /\ handlers'[h].put \in {"settled", "rejected"}
                => /\ handlers'[h].strategy = STALE_WHILE_REVALIDATE
                   /\ handlers'[h].cached = NoResponse]_vars

\* networkFirst has returned a 200 response and its put has not completed
C26_Witness ==
    \E h \in Handlers :
      /\ handlers[h].strategy = NETWORK_FIRST /\ handlers[h].pc = "done"
      /\ handlers[h].put = "pending" /\ handlers[h].result.status = 200

-----------------------------------------------------------------------------
(* Overlapping handlers of one URL *)

\* the runtime cache entry of the URL the overlapping calls ask for
ScriptEntry(entries) ==
    IF ScriptRequest.url \in DOMAIN RuntimeEntries(entries)
    THEN RuntimeEntries(entries)[ScriptRequest.url] ELSE NoResponse

\* the calls that have received a response from the network
Fetchers == { h \in Overlapping : handlers[h].net.status # 0 }

\* C27: overlapping calls for one URL each fetch for themselves: networkFirst
\* always, cacheFirst unless its lookup found an entry, and no two calls
\* share a network response; the runtime cache entry of the URL is absent or
\* the 200 response of one call's fetch; the entry changes only when a put
\* completes, and then it is the response of the call whose put completed
C27_OverlappingHandlersRace ==
    /\ [](\A h \in Overlapping :
            handlers[h].pc = "done" =>
              /\ handlers[h].strategy = NETWORK_FIRST => handlers[h].fetches = 1
              /\ handlers[h].strategy = CACHE_FIRST =>
                   handlers[h].fetches = (IF handlers[h].cached = NoResponse THEN 1 ELSE 0))
    /\ [](\A h1, h2 \in Fetchers : h1 # h2 => handlers[h1].net # handlers[h2].net)
    /\ [](\/ ScriptEntry(cacheEntries) = NoResponse
          \/ /\ ScriptEntry(cacheEntries).status = 200
             /\ \E h \in Fetchers : ScriptEntry(cacheEntries) = handlers[h].net)
    /\ [][/\ ScriptEntry(cacheEntries') # ScriptEntry(cacheEntries)
               => \E h \in Overlapping : PutLands(h)
          /\ \A h \in Overlapping :
               PutLands(h) => ScriptEntry(cacheEntries') = handlers[h].net]_vars

\* two overlapping calls both fetched a 200 response and both puts have
\* completed; the entry is the response of the call that started first, whose
\* put completed last
C27_Witness ==
    /\ handlers[1].put = "settled" /\ handlers[2].put = "settled"
    /\ handlers[1].fetches = 1 /\ handlers[2].fetches = 1
    /\ handlers[1].strategy \in {CACHE_FIRST, NETWORK_FIRST}
    /\ handlers[2].strategy \in {CACHE_FIRST, NETWORK_FIRST}
    /\ ScriptEntry(cacheEntries) = handlers[1].net

-----------------------------------------------------------------------------
(* Drawing modes of the GIS wrapper *)

\* a step that enables the drawing mode `mode` while the listener of an
\* earlier enableDrawingMode call is still attached to the map
EnablesSecond(mode) ==
    /\ map # 0
    /\ \E l \in 1 .. Len(clickHandlers) : clickHandlers[l].on = map
    /\ GisEnableDrawingMode(mode)

\* C28 as stated: after a second drawing mode is enabled while the first is
\* still enabled, the click listeners of both modes are attached to the map
C28_BothHandlersStayAttached ==
    [][\A mode \in ShapeModes :
         EnablesSecond(mode) =>
           Len(ListenersOn(clickHandlers', map)) = Len(ListenersOn(clickHandlers, map)) + 1]_vars

\* C28, amended: enabling a second drawing mode while the first is still
\* enabled removes the first mode's click listener before it attaches its
\* own, so the map never has more than one drawing listener and a click adds
\* only what the mode enabled last adds
C28_SecondModeReplacesFirst ==
    /\ [][\A mode \in ShapeModes :
            EnablesSecond(mode) =>
              \E l \in 1 .. Len(clickHandlers') :
                /\ clickHandlers'[l] = [on |-> map, mode |-> mode, points |-> 0]
                /\ \A k \in 1 .. Len(clickHandlers') :
                     clickHandlers'[k].on = map => k = l]_vars
    /\ [](\A k, l \in 1 .. Len(clickHandlers) :
            clickHandlers[k].on = clickHandlers[l].on => k = l)
    /\ [][clicks' = clicks + 1 =>
            \/ drawingLayer'.shapes = drawingLayer.shapes
            \/ /\ Len(drawingLayer'.shapes) = Len(drawingLayer.shapes) + 1
               /\ drawingLayer'.shapes[Len(drawingLayer'.shapes)]
                    \in {currentDrawingMode, "tempMarker"}]_vars

\* a second mode was enabled while the listener of the first was attached,
\* and a click since then added a shape of the second mode
C28_Witness ==
    /\ session.replaced \in ShapeModes /\ session.replaced # session.mode
    /\ session.committed = <<session.mode>>

\* the minimum point count of the modes that collect points
MinPoints(mode) == IF mode = "polygon" THEN 3 ELSE 2

\* the shapes committed since the last enableDrawingMode call; the marker
\* the polygon mode puts at its first point is not counted as one
CommittedShapes == SelectSeq(session.committed, LAMBDA k : k # "tempMarker")

\* C29: in polygon, polyline and rectangle mode the clicks after an
\* enableDrawingMode call commit no shape before the click that reaches the
\* minimum point count of the mode (3, 2, 2), and from that click on exactly
\* one shape, of that mode, has been committed
C29_OneShapePerEnable ==
    session.mode \in {"polygon", "polyline", "rectangle"} =>
      CommittedShapes = (IF session.clicks < MinPoints(session.mode)
                         THEN <<>> ELSE <<session.mode>>)

-----------------------------------------------------------------------------
(* Generated identifiers *)

\* the add calls i and j were of the same kind and in the same clock tick
SameKindAndTick(i, j) ==
    issued[i].kind = issued[j].kind /\ issued[i].tick = issued[j].tick

\* the objects a registry holds
HeldBy(reg) == { reg[i].obj : i \in 1 .. Len(reg) }

\* C30: two add calls of one kind in one clock tick return the same
\* identifier, calls in different ticks or of different kinds return
\* different ones; and the step of an add call whose identifier is already in
\* the registry replaces that entry with the new overlay, while the overlay
\* of the earlier call stays on the map as it was
C30_IdentifiersCollideWithinTick ==
    /\ [](\A i, j \in 1 .. Len(issued) :
            (issued[i].id = issued[j].id) <=> SameKindAndTick(i, j))
    /\ [][\A i \in 1 .. Len(issued) :
            (/\ Len(issued') = Len(issued) + 1
             /\ issued'[Len(issued')].kind = issued[i].kind
             /\ issued'[Len(issued')].tick = issued[i].tick)
              => /\ Len(RegistryOf(issued[i].kind)') = Len(RegistryOf(issued[i].kind))
                 /\ issued[i].obj \notin HeldBy(RegistryOf(issued[i].kind)')
                 /\ issued'[Len(issued')].obj \in HeldBy(RegistryOf(issued[i].kind)')
                 /\ overlays'[issued[i].obj] = overlays[issued[i].obj]]_vars

\* two addMarker calls in one tick: one registry entry, which holds the
\* second marker, and the first marker is still on the map
C30_Witness ==
    /\ Len(issued) = 2 /\ issued[1].kind = "marker" /\ issued[1].id = issued[2].id
    /\ Len(markers) = 1 /\ markers[1].obj = 2
    /\ overlays[1].on = map /\ map # 0

=============================================================================
